---- MODULE Spec2Model ----
(***************************************************************************)
(* A model of the LP file reader of HiGHS, extern/filereaderlp/reader.cpp. *)
(*                                                                         *)
(* Reader::read() runs a pipeline: the lexer (readnexttoken, behind a      *)
(* five-slot window), the token classifier (processtokens), the section    *)
(* splitter (splittokens) and the section processors (processsections).    *)
(*                                                                         *)
(* Two state machines are given, both from the reader as constructed on    *)
(* the text of a file.  SpecLex and its siblings take read() lines 280-291 *)
(* one call of readnexttoken and one pass of a loop of processtokens at a  *)
(* time: the lexer, the window that read() fills and nextrawtoken()        *)
(* advances, the classifier, then the splitter and the section processors. *)
(* Spec and its siblings (SpecBounds, SpecCon, SpecSos, SpecTypes,         *)
(* SpecQuad, ...) take the same lines 280-291 as one step, and then the    *)
(* splitter and the nine section processors in the order of                *)
(* processsections(); they differ in the family of files they read.        *)
(*                                                                         *)
(* Strings are sequences of one-character strings, so that lower-casing    *)
(* and joining act on them as the code does.  A double is a record of a    *)
(* sign, a binary mantissa and a binary exponent, or an infinity or NaN.   *)
(***************************************************************************)
EXTENDS Integers, Sequences, FiniteSets, TLC

VARIABLES
    \* ---- the lexer (Reader's members, reader.cpp 165-172) ----
    file,            \* the characters of the input file not yet read by getline
    fileeof,         \* file.eof()
    linebuffer,      \* the current line
    linebufferpos,   \* the read position in it (0-based)
    rawtokens,       \* the five-slot window (slots 1..5 are rawtokens[0..4])
    rawtokenpos,     \* the number of raw tokens consumed
    lexpc,           \* where nextrawtoken returns to: "classify", "comment"; "idle"
    lexi,            \* the slots filled so far / the calls nextrawtoken has left
    lexout,          \* every token readnexttoken has delivered, in order
    \* ---- the rest of read() ----
    written,         \* what the input file says, section by section (history)
    rawstream,       \* the raw tokens lexed before the first FLEND (history)
    processedtokens, \* std::vector<ProcessedToken>
    sectiontokens,   \* std::map<LpSectionKeyword, pair<iterator, iterator>>
    builder,         \* Builder: the model under construction
    pc,              \* the next step of read()
    status           \* "running", "ok", "error" (lpassert threw), "undefined",
                     \* "aborted" (assert failed), "hung" (a loop never ends)

lexvars == <<file, fileeof, linebuffer, linebufferpos, rawtokens, rawtokenpos,
             lexpc, lexi, lexout>>
pipevars == <<written, rawstream, processedtokens, sectiontokens, builder, pc, status>>
vars == <<file, fileeof, linebuffer, linebufferpos, rawtokens, rawtokenpos,
          lexpc, lexi, lexout,
          written, rawstream, processedtokens, sectiontokens, builder, pc, status>>

-----------------------------------------------------------------------------
(* Doubles *)

\* A double is a record [k, s, m, e].  With k = "fin" it is the finite value
\* s * m * 2^e of IEEE 754 binary64: s is the sign (1 or -1; a zero has a
\* sign as well), m a natural number below 2^53 and e between -1074 and 971.
\* m is written as the sequence of its digits in base 2^15, the least
\* significant first and the last one not 0: <<>> is 0, <<5>> is 5,
\* <<0, 1>> is 32768.  Every value has one record: e = 0 when m = 0, m is
\* odd when e < 0, and m is at least 2^52 when e > 0, so that an integer
\* below 2^53 is [m |-> the integer, e |-> 0].
\* With k = "inf" it is s * infinity, with k = "nan" a NaN.
\* The results of strtod and of + are rounded to the nearest double, a tie
\* to the one with the even mantissa.

Pow2Tab == <<1, 2, 4, 8, 16, 32, 64, 128, 256, 512, 1024, 2048, 4096, 8192,
             16384, 32768>>
\* 2^r for r in 0..15
Pow2(r) == Pow2Tab[r + 1]

\* the base of the digits of a natural number
Base == Pow2(15)

\* x without its leading zero digits
BNorm(x) ==
    IF \A i \in 1..Len(x) : x[i] = 0 THEN <<>>
    ELSE SubSeq(x, 1, CHOOSE i \in 1..Len(x) :
                          x[i] # 0 /\ \A j \in (i + 1)..Len(x) : x[j] = 0)

\* the natural number of the int n >= 0
BOfInt(n) ==
    IF n < Base THEN (IF n = 0 THEN <<>> ELSE <<n>>)
    ELSE BNorm(<<n % Base, (n \div Base) % Base, n \div (Base * Base)>>)

\* the digit i of x (1-based), 0 beyond its length
Limb(x, i) == IF i >= 1 /\ i <= Len(x) THEN x[i] ELSE 0

\* the carry into digit i of x + y: a digit below i overflows and the
\* digits between pass the carry on
BCarry(x, y, i) ==
    IF \E j \in 1..(i - 1) :
           /\ Limb(x, j) + Limb(y, j) >= Base
           /\ \A n \in (j + 1)..(i - 1) : Limb(x, n) + Limb(y, n) = Base - 1
    THEN 1 ELSE 0

\* x + y
BAdd(x, y) ==
    BNorm([i \in 1..((IF Len(x) >= Len(y) THEN Len(x) ELSE Len(y)) + 1) |->
              (Limb(x, i) + Limb(y, i) + BCarry(x, y, i)) % Base])

\* the borrow from digit i of x - y
BBorrow(x, y, i) ==
    IF \E j \in 1..(i - 1) :
           /\ x[j] < Limb(y, j)
           /\ \A n \in (j + 1)..(i - 1) : x[n] = Limb(y, n)
    THEN 1 ELSE 0

\* x - y, for x >= y
BSub(x, y) ==
    BNorm([i \in 1..Len(x) |-> (x[i] - Limb(y, i) - BBorrow(x, y, i) + Base) % Base])

\* 1, 0 or -1 as x is above, equal to or below y
BCmp(x, y) ==
    IF Len(x) # Len(y) THEN (IF Len(x) > Len(y) THEN 1 ELSE -1)
    ELSE IF x = y THEN 0
    ELSE IF \E i \in 1..Len(x) : x[i] > y[i] /\ \A j \in (i + 1)..Len(x) : x[j] = y[j]
    THEN 1 ELSE -1

\* x * 2^r for r in 0..14
BShlDigits(x, r) ==
    BNorm([i \in 1..(Len(x) + 1) |->
              (Limb(x, i) % Pow2(15 - r)) * Pow2(r) + Limb(x, i - 1) \div Pow2(15 - r)])

\* x * 2^n
BShl(x, n) ==
    IF x = <<>> THEN <<>> ELSE [i \in 1..(n \div 15) |-> 0] \o BShlDigits(x, n % 15)

\* the digits of x from digit w + 1 on, divided by 2^r (r in 0..14)
BShrDigits(x, w, r) ==
    BNorm([i \in 1..(Len(x) - w) |->
              (x[w + i] \div Pow2(r)) + (Limb(x, w + i + 1) % Pow2(r)) * Pow2(15 - r)])

\* x divided by 2^n, the remainder dropped
BShr(x, n) == IF n \div 15 >= Len(x) THEN <<>> ELSE BShrDigits(x, n \div 15, n % 15)

\* the number of binary digits of the int n in 1..Base-1
SmallBitLen(n) == CHOOSE b \in 1..15 : Pow2(b - 1) <= n /\ n < Pow2(b)

\* the number of binary digits of x (none for 0)
BBitLen(x) == IF x = <<>> THEN 0 ELSE 15 * (Len(x) - 1) + SmallBitLen(x[Len(x)])

\* the binary digit of x of weight 2^i
BBit(x, i) == (Limb(x, i \div 15 + 1) \div Pow2(i % 15)) % 2

\* x has a binary digit 1 of a weight below 2^n
BLowBits(x, n) ==
    \E j \in 1..Len(x) :
        /\ x[j] # 0
        /\ \/ j <= n \div 15
           \/ j = n \div 15 + 1 /\ x[j] % Pow2(n % 15) # 0

\* the number of binary digits 0 at the end of the int n in 1..Base-1
SmallTrailingZeros(n) == CHOOSE b \in 0..14 : n % Pow2(b + 1) = Pow2(b)

\* the first digit of x # 0 that is not 0
BLowDigit(x) == CHOOSE i \in 1..Len(x) : x[i] # 0 /\ \A j \in 1..(i - 1) : x[j] = 0

\* the number of binary digits 0 at the end of x # 0
BTrailingZeros(x) == 15 * (BLowDigit(x) - 1) + SmallTrailingZeros(x[BLowDigit(x)])

\* x * n for an int n in 0..Base: the low halves of the products of the
\* digits, plus their high halves one digit up
BMulSmall(x, n) ==
    BAdd([i \in 1..Len(x) |-> (x[i] * n) % Base],
         <<0>> \o [i \in 1..Len(x) |-> (x[i] * n) \div Base])

\* x * 10^n
RECURSIVE BMul10(_, _)
BMul10(x, n) ==
    IF n = 0 \/ x = <<>> THEN x
    ELSE IF n >= 16
    THEN BMul10(BMulSmall(BMulSmall(BMulSmall(BMulSmall(x, 10000), 10000), 10000), 10000),
                n - 16)
    ELSE IF n >= 4 THEN BMul10(BMulSmall(x, 10000), n - 4)
    ELSE BMul10(BMulSmall(x, 10), n - 1)

\* the int that the digits ds (ints below base, at most seven of them)
\* write in the base 10 or 16
RECURSIVE SmallOfDigits(_, _)
SmallOfDigits(ds, base) ==
    IF ds = <<>> THEN 0
    ELSE SmallOfDigits(SubSeq(ds, 1, Len(ds) - 1), base) * base + ds[Len(ds)]

\* x * base^n for the base 10 or 16
BScale(x, base, n) == IF base = 16 THEN BShl(x, 4 * n) ELSE BMul10(x, n)

\* the natural number that the digits ds write in the base 10 or 16: the
\* first half of the digits, scaled, plus the second half
RECURSIVE BOfDigits(_, _)
BOfDigits(ds, base) ==
    IF Len(ds) <= 7 THEN BOfInt(SmallOfDigits(ds, base))
    ELSE BAdd(BScale(BOfDigits(SubSeq(ds, 1, Len(ds) \div 2), base), base,
                     Len(ds) - Len(ds) \div 2),
              BOfDigits(SubSeq(ds, Len(ds) \div 2 + 1, Len(ds)), base))

\* std::numeric_limits<double>::infinity(), and its negative
Inf(s) == [k |-> "inf", s |-> s, m |-> <<>>, e |-> 0]
Infinity == Inf(1)

\* the result of inf + (-inf), and of strtod on "nan"
NaN == [k |-> "nan", s |-> 1, m |-> <<>>, e |-> 0]

\* 0.0 and -0.0
Zero(s) == [k |-> "fin", s |-> s, m |-> <<>>, e |-> 0]

Min(a, b) == IF a <= b THEN a ELSE b

\* the record of the double s * m * 2^e, for m # 0
Norm(s, m, e) ==
    IF e < 0
    THEN [k |-> "fin", s |-> s, m |-> BShr(m, Min(BTrailingZeros(m), 0 - e)),
          e |-> e + Min(BTrailingZeros(m), 0 - e)]
    ELSE IF e > 0 /\ BBitLen(m) < 53
    THEN [k |-> "fin", s |-> s, m |-> BShl(m, Min(53 - BBitLen(m), e)),
          e |-> e - Min(53 - BBitLen(m), e)]
    ELSE [k |-> "fin", s |-> s, m |-> m, e |-> e]

\* s * m * 2^e where m has the digits of a double at that exponent, or is
\* 2^53 after a rounding up: an infinity from 2^1024 on
Finite(s, m, e) ==
    IF m = <<>> THEN Zero(s)
    ELSE IF BBitLen(m) + e > 1024 THEN Inf(s)
    ELSE IF BBitLen(m) > 53 THEN Norm(s, BShr(m, 1), e + 1)
    ELSE Norm(s, m, e)

\* s * m * 2^e + (a positive amount below 2^e if sticky), rounded to the
\* double grid whose last place has the weight 2^q: the digit of weight
\* 2^(q-1) decides, and on a tie the even mantissa is taken
RoundAt(s, m, e, sticky, q) ==
    IF q <= e THEN Finite(s, m, e)
    ELSE Finite(s,
                IF /\ BBit(m, q - e - 1) = 1
                   /\ (sticky \/ BLowBits(m, q - e - 1) \/ BBit(m, q - e) = 1)
                THEN BAdd(BShr(m, q - e), <<1>>)
                ELSE BShr(m, q - e),
                q)

\* the weight of the last place of a double whose first binary digit has
\* the weight 2^top: 52 places below it, and 2^-1074 for the subnormal ones
LastPlace(top) == IF top - 52 > -1074 THEN top - 52 ELSE -1074

\* the double nearest to s * m * 2^e (+ a positive amount below 2^e if
\* sticky): an infinity from 2^1024 - 2^970 on (HUGE_VAL), a zero up to
\* 2^-1075
Round(s, m, e, sticky) ==
    IF m = <<>> THEN Zero(s)
    ELSE IF BBitLen(m) - 1 + e >= 1024 THEN Inf(s)
    ELSE IF BBitLen(m) - 1 + e < -1076 THEN Zero(s)
    ELSE RoundAt(s, m, e, sticky, LastPlace(BBitLen(m) - 1 + e))

\* one step of the long division by d: the binary digit of weight 2^i of
\* the quotient is 1 when ds = d * 2^i goes into the remainder
DivStep(st, ds) ==
    IF BCmp(st.r, ds) >= 0
    THEN [q |-> BAdd(BShl(st.q, 1), <<1>>), r |-> BSub(st.r, ds)]
    ELSE [q |-> BShl(st.q, 1), r |-> st.r]

\* the long division by d from the binary digit of weight 2^i down to the
\* last one, two digits at a time: st.q are the digits of the quotient so
\* far, st.r is the remainder (below d * 2^(i+1)); nothing but zeros
\* follows a remainder 0
RECURSIVE DivBits(_, _, _)
DivBits(st, d, i) ==
    IF i < 0 THEN st
    ELSE IF st.r = <<>> THEN [q |-> BShl(st.q, i + 1), r |-> <<>>]
    ELSE DivBits(DivStep(DivStep(st, BShl(d, i)), BShl(d, i - 1)), d, i - 2)

\* the quotient and the remainder of n and d, for n below d * 2^58
BDivMod(n, d) == DivBits([q |-> <<>>, r |-> n], d, 57)

QuotRounded(s, dv, k) == Round(s, dv.q, 0 - k, dv.r # <<>>)

\* the double nearest to s * n / d for natural numbers n, d # 0: the
\* quotient of n * 2^k and d has 55 or 56 binary digits
QuotScaled(s, n, d, k) ==
    QuotRounded(s, IF k >= 0 THEN BDivMod(BShl(n, k), d) ELSE BDivMod(n, BShl(d, 0 - k)),
                k)
Quot(s, n, d) == QuotScaled(s, n, d, 55 - (BBitLen(n) - BBitLen(d)))

\* the double nearest to s * m * 10^x for a natural number m; 2^(3x) is
\* below 10^x for x > 0 and above it for x < 0
Dec(s, m, x) ==
    IF m = <<>> THEN Zero(s)
    ELSE IF x >= 0
    THEN (IF BBitLen(m) - 1 + 3 * x >= 1025 THEN Inf(s)
          ELSE Round(s, BMul10(m, x), 0, FALSE))
    ELSE IF BBitLen(m) + 3 * x < -1077 THEN Zero(s)
    ELSE Quot(s, m, BMul10(<<1>>, 0 - x))

\* the double nearest to s * m * 10^e, for an int m >= 0
DFin(s, m, e) == Dec(s, BOfInt(m), e)

\* the int of the natural number x, for x that is one
BToInt(x) == Limb(x, 1) + Base * Limb(x, 2) + Base * Base * Limb(x, 3)

\* a whole number of any size: the sign s (1 or -1) and the natural number
\* b, for s * b
Whole(s, b) == [s |-> s, b |-> b]

\* sa * x + sb * y
WholeSum(sa, x, sb, y) ==
    IF sa = sb THEN Whole(sa, BAdd(x, y))
    ELSE IF BCmp(x, y) >= 0 THEN Whole(sa, BSub(x, y))
    ELSE Whole(sb, BSub(y, x))

\* the int of the whole number z, and the limit lo or hi for a z beyond
\* it (lo <= 0 <= hi)
WholeWithin(z, lo, hi) ==
    IF z.s = 1 THEN (IF BCmp(z.b, BOfInt(hi)) >= 0 THEN hi ELSE BToInt(z.b))
    ELSE IF BCmp(z.b, BOfInt(0 - lo)) >= 0 THEN lo
    ELSE 0 - BToInt(z.b)

\* the double nearest to s * m * 2^z for a whole number z: m # 0 is at
\* least 1 and below 2^BBitLen(m), so that every z from 1025 on gives the
\* infinity that 1025 gives, and every z from -(BBitLen(m) + 1077) down the
\* zero that this one gives
BinExp(s, m, z) == Round(s, m, WholeWithin(z, 0 - (BBitLen(m) + 1077), 1025), FALSE)

\* the double nearest to s * m * 10^z for a whole number z: every z from
\* 1026 on gives the infinity, every z from -(BBitLen(m) + 1078) down the
\* zero
DecExp(s, m, z) == Dec(s, m, WholeWithin(z, 0 - (BBitLen(m) + 1078), 1026))

\* the double of the int n
Dbl(n) ==
    [k |-> "fin", s |-> IF n < 0 THEN -1 ELSE 1,
     m |-> BOfInt(IF n < 0 THEN 0 - n ELSE n), e |-> 0]

\* unary minus
Neg(d) == IF d.k = "nan" THEN d ELSE [d EXCEPT !.s = 0 - d.s]

\* a == b on doubles: a NaN equals nothing, the two zeros are equal
DEq(a, b) ==
    /\ a.k # "nan"
    /\ b.k # "nan"
    /\ \/ a = b
       \/ a.k = "fin" /\ b.k = "fin" /\ a.m = <<>> /\ b.m = <<>>

\* sa * x * 2^e + sb * y * 2^e, rounded; a sum of opposite equal values is +0
SignedSum(sa, x, sb, y, e) ==
    IF sa = sb THEN Round(sa, BAdd(x, y), e, FALSE)
    ELSE IF BCmp(x, y) = 0 THEN Zero(1)
    ELSE IF BCmp(x, y) > 0 THEN Round(sa, BSub(x, y), e, FALSE)
    ELSE Round(sb, BSub(y, x), e, FALSE)

\* a + b
DAdd(a, b) ==
    IF a.k = "nan" \/ b.k = "nan" THEN NaN
    ELSE IF a.k = "inf" /\ b.k = "inf" THEN (IF a.s = b.s THEN a ELSE NaN)
    ELSE IF a.k = "inf" THEN a
    ELSE IF b.k = "inf" THEN b
    ELSE SignedSum(a.s, BShl(a.m, a.e - Min(a.e, b.e)),
                   b.s, BShl(b.m, b.e - Min(a.e, b.e)), Min(a.e, b.e))

-----------------------------------------------------------------------------
(* Strings *)

UpperChars == <<"A","B","C","D","E","F","G","H","I","J","K","L","M","N","O","P","Q","R","S","T","U","V","W","X","Y","Z">>
LowerChars == <<"a","b","c","d","e","f","g","h","i","j","k","l","m","n","o","p","q","r","s","t","u","v","w","x","y","z">>

\* std::tolower on one character
tolower(c) ==
    IF \E i \in DOMAIN UpperChars : UpperChars[i] = c
    THEN LowerChars[CHOOSE i \in DOMAIN UpperChars : UpperChars[i] = c]
    ELSE c

\* std::transform(str.begin(), str.end(), str.begin(), tolower)
ToLowerStr(str) == [i \in DOMAIN str |-> tolower(str[i])]

-----------------------------------------------------------------------------
(* The keyword tables of def.hpp *)

LP_KEYWORD_MIN ==
    { <<"m","i","n">>,
      <<"m","i","n","i","m","i","z","e">>,
      <<"m","i","n","i","m","i","s","e">> }

LP_KEYWORD_MAX ==
    { <<"m","a","x">>,
      <<"m","a","x","i","m","i","z","e">>,
      <<"m","a","x","i","m","i","s","e">> }

LP_KEYWORD_ST ==
    { <<"s","t">>,
      <<"s",".","t",".">>,
      <<"s","u","b","j","e","c","t"," ","t","o">>,
      <<"s","u","c","h"," ","t","h","a","t">> }

LP_KEYWORD_BOUNDS ==
    { <<"b","o","u","n","d","s">>,
      <<"b","o","u","n","d">> }

LP_KEYWORD_BIN ==
    { <<"b","i","n">>,
      <<"b","i","n","a","r","y">>,
      <<"b","i","n","a","r","i","e","s">> }

LP_KEYWORD_GEN ==
    { <<"g","e","n">>,
      <<"g","e","n","e","r","a","l">>,
      <<"g","e","n","e","r","a","l","s">>,
      <<"i","n","t">>,
      <<"i","n","t","e","g","e","r">>,
      <<"i","n","t","e","g","e","r","s">> }

LP_KEYWORD_SEMI ==
    { <<"s","e","m","i">>,
      <<"s","e","m","i","-","c","o","n","t","i","n","u","o","u","s">>,
      <<"s","e","m","i","s">> }

LP_KEYWORD_SOS ==
    { <<"s","o","s">> }

LP_KEYWORD_END ==
    { <<"e","n","d">> }

LP_KEYWORD_FREE ==
    { <<"f","r","e","e">> }

LP_KEYWORD_INF ==
    { <<"i","n","f">>,
      <<"i","n","f","i","n","i","t","y">> }

\* an iskeyword that knows no keyword of two letters
iskeywordLong(str, keywords) == \E k \in keywords : str = k /\ Len(k) > 2

\* iskeyword(str, keywords, nkeywords): an exact comparison with each entry
iskeyword(str, keywords) == \E k \in keywords : str = k

\* parsesectionkeyword(str): lower-cases, then tries the tables in order
parsesectionkeyword(str) ==
    LET s == ToLowerStr(str) IN
    IF iskeyword(s, LP_KEYWORD_MIN) THEN "OBJMIN"
    ELSE IF iskeyword(s, LP_KEYWORD_MAX) THEN "OBJMAX"
    ELSE IF iskeyword(s, LP_KEYWORD_ST) THEN "CON"
    ELSE IF iskeyword(s, LP_KEYWORD_BOUNDS) THEN "BOUNDS"
    ELSE IF iskeyword(s, LP_KEYWORD_BIN) THEN "BIN"
    ELSE IF iskeyword(s, LP_KEYWORD_GEN) THEN "GEN"
    ELSE IF iskeyword(s, LP_KEYWORD_SEMI) THEN "SEMI"
    ELSE IF iskeyword(s, LP_KEYWORD_SOS) THEN "SOS"
    ELSE IF iskeyword(s, LP_KEYWORD_END) THEN "END"
    ELSE "NONE"

-----------------------------------------------------------------------------
(* Raw tokens (struct RawToken) *)

\* RawToken::operator=(const std::string&)
RawStr(s) == [type |-> "STR", svalue |-> s]
\* RawToken::operator=(const double)
RawCons(d) == [type |-> "CONS", dvalue |-> d]
\* RawToken::operator=(RawTokenType)
RawSym(t) == [type |-> t]

\* rawtoken(offset) as the classifier sees it: the token offset places after
\* the consumed ones; the lexer delivers FLEND for ever after the last token
StreamToken(stream, pos, offset) ==
    IF pos + offset + 1 <= Len(stream) THEN stream[pos + offset + 1]
    ELSE RawSym("FLEND")

-----------------------------------------------------------------------------
(* The lexer: Reader::readnexttoken *)

\* A file is the sequence of its characters; "NL" is the newline character,
\* "NUL" the character '\0', "CR" the carriage return, "TAB" the tabulator,
\* "VT" the vertical tab, "FF" the form feed.

\* the position of the first "NL" in f from position i on, 0 if there is none
FirstNewline(f, i) ==
    IF \A j \in i..Len(f) : f[j] # "NL" THEN 0
    ELSE CHOOSE j \in i..Len(f) : f[j] = "NL" /\ \A n \in i..(j - 1) : f[n] # "NL"

\* std::getline(file, linebuffer): the characters up to the next newline,
\* which is consumed; at the end of the file the eof bit is set
Getline(f) ==
    LET k == FirstNewline(f, 1) IN
    IF k = 0
    THEN [line |-> f, file |-> <<>>, eof |-> TRUE]
    ELSE [line |-> SubSeq(f, 1, k - 1), file |-> SubSeq(f, k + 1, Len(f)), eof |-> FALSE]

\* the line without a trailing carriage return
DropCR(line) ==
    IF line # <<>> /\ line[Len(line)] = "CR" THEN SubSeq(line, 1, Len(line) - 1) ELSE line

\* the characters that readnexttoken turns into a token of their own
SingleCharToken(c) ==
    IF c = "[" THEN "BRKOP"
    ELSE IF c = "]" THEN "BRKCL"
    ELSE IF c = "<" THEN "LESS"
    ELSE IF c = ">" THEN "GREATER"
    ELSE IF c = "=" THEN "EQUAL"
    ELSE IF c = ":" THEN "COLON"
    ELSE IF c = "+" THEN "PLUS"
    ELSE IF c = "^" THEN "HAT"
    ELSE IF c = "/" THEN "SLASH"
    ELSE IF c = "*" THEN "ASTERISK"
    ELSE IF c = "-" THEN "MINUS"
    ELSE "NONE"

Digits == <<"0","1","2","3","4","5","6","7","8","9">>
IsDigit(c) == \E i \in DOMAIN Digits : Digits[i] = c
DigitVal(c) == (CHOOSE i \in DOMAIN Digits : Digits[i] = c) - 1

HexLetters == <<"a","b","c","d","e","f">>
IsHexDigit(c) == IsDigit(c) \/ \E i \in DOMAIN HexLetters : HexLetters[i] = tolower(c)
HexVal(c) ==
    IF IsDigit(c) THEN DigitVal(c)
    ELSE 9 + (CHOOSE i \in DOMAIN HexLetters : HexLetters[i] = tolower(c))

\* isalnum(c) or '_': the characters of the sequence in "nan(...)"
IsNanChar(c) ==
    \/ IsDigit(c)
    \/ c = "_"
    \/ \E i \in DOMAIN LowerChars : LowerChars[i] = tolower(c)

\* the character of line at position i (0-based); the string that strtod
\* reads ends at the end of the line
CharAt(line, i) == IF i < Len(line) THEN line[i + 1] ELSE "NUL"

\* isspace: the characters strtod skips before a number ("VT" is the
\* vertical tab, "FF" the form feed)
IsSpace(c) == c \in {" ", "TAB", "NL", "VT", "FF", "CR"}

\* the position of the first character from position i on that is not
\* white space
SpaceEnd(line, i) ==
    IF i >= Len(line) THEN i
    ELSE CHOOSE j \in i..Len(line) :
             /\ ~IsSpace(CharAt(line, j))
             /\ \A n \in i..(j - 1) : IsSpace(CharAt(line, n))

\* line has the word w (in any case) at position i (0-based)
HasWordAt(line, i, w) ==
    /\ i + Len(w) <= Len(line)
    /\ ToLowerStr(SubSeq(line, i + 1, i + Len(w))) = w

\* the position of the first character from position i on that is not a
\* digit (a hexadecimal one if hex)
DigitsEnd(line, i, hex) ==
    CHOOSE j \in i..Len(line) :
        /\ ~(IF hex THEN IsHexDigit(CharAt(line, j)) ELSE IsDigit(CharAt(line, j)))
        /\ \A n \in i..(j - 1) :
               IF hex THEN IsHexDigit(CharAt(line, n)) ELSE IsDigit(CharAt(line, n))

\* the values of the digits ds
DigitVals(ds) == [n \in 1..Len(ds) |-> HexVal(ds[n])]

\* ds without the zeros before its first other digit
SkipZeros(ds) ==
    IF \A n \in 1..Len(ds) : ds[n] = 0 THEN <<>>
    ELSE SubSeq(ds, CHOOSE n \in 1..Len(ds) : ds[n] # 0 /\ \A j \in 1..(n - 1) : ds[j] = 0,
                Len(ds))

\* a mantissa whose digits before the '.' end at position a and whose
\* digits end at position b (a = b without a '.')
Mantissa(line, i, hex, a, b) ==
    [endpos |-> b,
     m |-> BOfDigits(SkipZeros(DigitVals(SubSeq(line, i + 1, a) \o SubSeq(line, a + 2, b))),
                     IF hex THEN 16 ELSE 10),
     sh |-> IF b > a THEN a + 1 - b ELSE 0,
     any |-> b - i > (IF b > a THEN 1 ELSE 0)]

PointEnd(line, i, hex, a) ==
    Mantissa(line, i, hex, a,
             IF CharAt(line, a) = "." THEN DigitsEnd(line, a + 1, hex) ELSE a)

\* the digits of a mantissa from position i, with at most one '.': the
\* position after them, the natural number m that the digits write, the
\* power sh of the base that m is to be multiplied with (minus the number
\* of digits after the '.'), and whether there was a digit at all
ScanMantissa(line, i, hex) == PointEnd(line, i, hex, DigitsEnd(line, i, hex))

\* the digits of an exponent that end at position b: the natural number
\* they write, whatever its size
ExpDigits(ds, b) == [endpos |-> b, value |-> BOfDigits(ds, 10)]

\* the digits of an exponent from position i: the position after them and
\* their value
ScanExpDigits(line, i) ==
    ExpDigits(SkipZeros(DigitVals(SubSeq(line, i + 1, DigitsEnd(line, i, FALSE)))),
              DigitsEnd(line, i, FALSE))

\* the exponent part at position i, introduced by the letter mark ("e" or
\* "p"): the position after it and its value, a whole number; without a
\* digit there is no exponent part
ScanExponent(line, i, mark) ==
    IF tolower(CharAt(line, i)) # mark THEN [endpos |-> i, value |-> Whole(1, <<>>)]
    ELSE LET signed == CharAt(line, i + 1) \in {"+", "-"}
             j == IF signed THEN i + 2 ELSE i + 1
             r == ScanExpDigits(line, j)
         IN IF r.endpos = j THEN [endpos |-> i, value |-> Whole(1, <<>>)]
            ELSE [endpos |-> r.endpos,
                  value |-> Whole(IF CharAt(line, i + 1) = "-" THEN -1 ELSE 1, r.value)]

\* the end of "nan" at position i, with the "(n-char-sequence)" that may
\* follow it
NanSeqStop(line, j) ==
    CHOOSE p \in j..Len(line) :
        /\ ~IsNanChar(CharAt(line, p))
        /\ \A n \in j..(p - 1) : IsNanChar(CharAt(line, n))

\* the position after the ')' that closes the sequence from position j, 0
\* if another character ends it
NanSeqEnd(line, j) ==
    IF CharAt(line, NanSeqStop(line, j)) = ")" THEN NanSeqStop(line, j) + 1 ELSE 0

NanEnd(line, i) ==
    IF CharAt(line, i + 3) = "(" /\ NanSeqEnd(line, i + 4) # 0
    THEN NanSeqEnd(line, i + 4)
    ELSE i + 3

\* strtod(startptr, &endptr) at position pos (0-based) of the line:
\* [value, endpos]; endpos = pos when there is no number.  White space and a
\* sign may precede the number, which is "inf", "infinity", "nan", a
\* hexadecimal number with a binary exponent, or a decimal number with a
\* decimal exponent; the value is the double nearest to what is written.
\* The string ends at its first '\0'.
strtod(line, pos) ==
    LET i0 == SpaceEnd(line, pos)
        signed == CharAt(line, i0) \in {"+", "-"}
        sign == IF CharAt(line, i0) = "-" THEN -1 ELSE 1
        i1 == IF signed THEN i0 + 1 ELSE i0
        Signed(v) == IF sign = -1 THEN Neg(v) ELSE v
        ishex == CharAt(line, i1) = "0" /\ tolower(CharAt(line, i1 + 1)) = "x"
        hx == ScanMantissa(line, i1 + 2, TRUE)
        hp == ScanExponent(line, hx.endpos, "p")
        dc == ScanMantissa(line, i1, FALSE)
        de == ScanExponent(line, dc.endpos, "e")
    IN IF HasWordAt(line, i1, <<"i","n","f","i","n","i","t","y">>)
       THEN [value |-> Signed(Infinity), endpos |-> i1 + 8]
       ELSE IF HasWordAt(line, i1, <<"i","n","f">>)
       THEN [value |-> Signed(Infinity), endpos |-> i1 + 3]
       ELSE IF HasWordAt(line, i1, <<"n","a","n">>)
       THEN [value |-> NaN, endpos |-> NanEnd(line, i1)]
       ELSE IF ishex /\ hx.any
       THEN [value |-> BinExp(sign, hx.m,
                              WholeSum(-1, BShl(BOfInt(0 - hx.sh), 2),
                                       hp.value.s, hp.value.b)),
             endpos |-> hp.endpos]
       ELSE IF dc.any
       THEN [value |-> DecExp(sign, dc.m,
                              WholeSum(-1, BOfInt(0 - dc.sh), de.value.s, de.value.b)),
             endpos |-> de.endpos]
       ELSE [value |-> Zero(1), endpos |-> pos]

\* the characters that end an identifier: "\t\n\\:+<>^= /-*"
IdentifierEnders == {"TAB", "NL", "\\", ":", "+", "<", ">", "^", "=", " ", "/", "-", "*"}

\* linebuffer.find_first_of("\t\n\\:+<>^= /-*", pos), or the size of the
\* line when there is no such character
FindFirstOf(line, i) ==
    IF \A j \in i..(Len(line) - 1) : line[j + 1] \notin IdentifierEnders THEN Len(line)
    ELSE CHOOSE j \in i..(Len(line) - 1) :
             /\ line[j + 1] \in IdentifierEnders
             /\ \A n \in i..(j - 1) : line[n + 1] \notin IdentifierEnders

\* the result of one call: the reader's file and line afterwards, the value
\* returned ("true", "false", "error" for lpassert(false), "assert" for the
\* assert of case '\0' failing) and the token assigned
LexResult(f, eof, line, pos, ret, t) ==
    [file |-> f, fileeof |-> eof, linebuffer |-> line, linebufferpos |-> pos,
     ret |-> ret, token |-> t]

NoToken == [type |-> "NONE"]

\* the end of readnexttoken (reader.cpp 1105-1126): d is what strtod gave at
\* pos; a number, else a string up to the next identifier ender, else
\* lpassert(false)
NumberOrString(f, eof, line, pos, d, endpos) ==
    IF d.endpos # pos THEN LexResult(f, eof, line, d.endpos, "true", RawCons(d.value))
    ELSE IF endpos > pos
    THEN LexResult(f, eof, line, endpos, "true", RawStr(SubSeq(line, pos + 1, endpos)))
    ELSE LexResult(f, eof, line, pos, "error", NoToken)

\* Reader::readnexttoken(t)
readnexttoken(f, eof, line, pos) ==
    IF pos = Len(line) /\ eof
    THEN LexResult(f, eof, line, pos, "true", RawSym("FLEND"))
    ELSE LET g == Getline(f)
             refill == pos = Len(line)
             f1 == IF refill THEN g.file ELSE f
             eof1 == IF refill THEN g.eof ELSE eof
             line1 == IF refill THEN DropCR(g.line) ELSE line
             pos1 == IF refill THEN 0 ELSE pos
             nextchar == IF pos1 = Len(line1) THEN "NUL" ELSE line1[pos1 + 1]
             Res(p, ret, t) == LexResult(f1, eof1, line1, p, ret, t)
         IN IF nextchar = "\\" THEN Res(Len(line1), "false", NoToken)
            ELSE IF SingleCharToken(nextchar) # "NONE"
            THEN Res(pos1 + 1, "true", RawSym(SingleCharToken(nextchar)))
            ELSE IF nextchar \in {" ", "TAB"} THEN Res(pos1 + 1, "false", NoToken)
            ELSE IF nextchar \in {";", "NL"} THEN Res(Len(line1), "false", NoToken)
            ELSE IF nextchar = "NUL"
            THEN Res(pos1, IF pos1 = Len(line1) THEN "false" ELSE "assert", NoToken)
            ELSE NumberOrString(f1, eof1, line1, pos1, strtod(line1, pos1),
                                FindFirstOf(line1, pos1))

-----------------------------------------------------------------------------
(* Processed tokens (struct ProcessedToken) *)

TokSecId(kw) == [type |-> "SECID", keyword |-> kw]
TokSosType(t) == [type |-> "SOSTYPE", sostype |-> t]
\* strdup(s.c_str()): the characters of s before its first '\0'
CStr(s) ==
    IF \A i \in 1..Len(s) : s[i] # "NUL" THEN s
    ELSE SubSeq(s, 1, (CHOOSE i \in 1..Len(s) :
                           s[i] = "NUL" /\ \A j \in 1..(i - 1) : s[j] # "NUL") - 1)

\* ProcessedToken(type, s) for CONID and VARID: the name is a C string
TokName(t, s) == [type |-> t, name |-> CStr(s)]
TokConst(v) == [type |-> "CONST", value |-> v]
TokComp(d) == [type |-> "COMP", dir |-> d]
TokPlain(t) == [type |-> t]

-----------------------------------------------------------------------------
(* The token classifier: Reader::processtokens *)

\* the do-while of the comment branch: skip two tokens at a time until the
\* window starts with '*' '/' or with FLEND; returns the position reached
RECURSIVE SkipComment(_, _)
SkipComment(stream, pos) ==
    LET p == pos + 2 IN
    IF (StreamToken(stream, p, 0).type = "ASTERISK" /\ StreamToken(stream, p, 1).type = "SLASH")
       \/ StreamToken(stream, p, 0).type = "FLEND"
    THEN p
    ELSE SkipComment(stream, p)

\* one pass of the while loop of processtokens at position pos:
\* [emit: the tokens appended, adv: the raw tokens consumed, err: lpassert failed]
ClassifyStep(stream, pos) ==
    LET t0 == StreamToken(stream, pos, 0)
        t1 == StreamToken(stream, pos, 1)
        t2 == StreamToken(stream, pos, 2)
        Emit(tok, n) == [emit |-> <<tok>>, adv |-> n, err |-> FALSE]
        Fail == [emit |-> <<>>, adv |-> 0, err |-> TRUE]
    IN
    IF t0.type = "SLASH" /\ t1.type = "ASTERISK"
    THEN [emit |-> <<>>, adv |-> (SkipComment(stream, pos) + 2) - pos, err |-> FALSE]
    ELSE IF t0.type = "STR" /\ t1.type = "MINUS" /\ t2.type = "STR"
            /\ parsesectionkeyword(t0.svalue \o <<"-">> \o t2.svalue) # "NONE"
    THEN Emit(TokSecId(parsesectionkeyword(t0.svalue \o <<"-">> \o t2.svalue)), 3)
    ELSE IF t0.type = "STR" /\ t1.type = "STR"
            /\ parsesectionkeyword(t0.svalue \o <<" ">> \o t1.svalue) # "NONE"
    THEN Emit(TokSecId(parsesectionkeyword(t0.svalue \o <<" ">> \o t1.svalue)), 2)
    ELSE IF t0.type = "STR" /\ parsesectionkeyword(t0.svalue) # "NONE"
    THEN Emit(TokSecId(parsesectionkeyword(t0.svalue)), 1)
    ELSE IF t0.type = "STR" /\ t1.type = "COLON" /\ t2.type = "COLON"
    THEN IF /\ Len(t0.svalue) = 2
            /\ t0.svalue[1] \in {"S", "s"}
            /\ t0.svalue[2] \in {"1", "2"}
         THEN Emit(TokSosType(IF t0.svalue[2] = "1" THEN "SOS1" ELSE "SOS2"), 3)
         ELSE Fail
    ELSE IF t0.type = "STR" /\ t1.type = "COLON"
    THEN Emit(TokName("CONID", t0.svalue), 2)
    ELSE IF t0.type = "STR" /\ iskeyword(t0.svalue, LP_KEYWORD_FREE)
    THEN Emit(TokPlain("FREE"), 1)
    ELSE IF t0.type = "STR" /\ iskeyword(t0.svalue, LP_KEYWORD_INF)
    THEN Emit(TokConst(Infinity), 1)
    ELSE IF t0.type = "STR"
    THEN Emit(TokName("VARID", t0.svalue), 1)
    ELSE IF t0.type = "PLUS" /\ t1.type = "CONS"
    THEN Emit(TokConst(t1.dvalue), 2)
    ELSE IF t0.type = "MINUS" /\ t1.type = "CONS"
    THEN Emit(TokConst(Neg(t1.dvalue)), 2)
    ELSE IF t0.type = "PLUS" /\ t1.type = "BRKOP"
    THEN Emit(TokPlain("BRKOP"), 2)
    ELSE IF t0.type = "MINUS" /\ t1.type = "BRKOP"
    THEN Fail
    ELSE IF t0.type = "CONS" /\ t1.type = "BRKOP"
    THEN Fail
    ELSE IF t0.type = "PLUS"
    THEN Emit(TokConst(Dbl(1)), 1)
    ELSE IF t0.type = "MINUS"
    THEN Emit(TokConst(Dbl(-1)), 1)
    ELSE IF t0.type = "CONS"
    THEN Emit(TokConst(t0.dvalue), 1)
    ELSE IF t0.type \in {"BRKOP", "BRKCL", "SLASH", "ASTERISK", "HAT"}
    THEN Emit(TokPlain(t0.type), 1)
    ELSE IF t0.type = "LESS" /\ t1.type = "EQUAL"
    THEN Emit(TokComp("LEQ"), 2)
    ELSE IF t0.type = "LESS"
    THEN Emit(TokComp("L"), 1)
    ELSE IF t0.type = "GREATER" /\ t1.type = "EQUAL"
    THEN Emit(TokComp("GEQ"), 2)
    ELSE IF t0.type = "GREATER"
    THEN Emit(TokComp("G"), 1)
    ELSE IF t0.type = "EQUAL"
    THEN Emit(TokComp("EQ"), 1)
    ELSE Fail

\* the while loop of processtokens, from position pos with acc emitted so far
RECURSIVE ClassifyFrom(_, _, _)
ClassifyFrom(stream, pos, acc) ==
    IF StreamToken(stream, pos, 0).type = "FLEND"
    THEN [tokens |-> acc, status |-> "ok"]
    ELSE LET r == ClassifyStep(stream, pos) IN
         IF r.err THEN [tokens |-> acc, status |-> "error"]
         ELSE ClassifyFrom(stream, pos + r.adv, acc \o r.emit)

\* Reader::processtokens on a whole raw token stream
processtokens(stream) == ClassifyFrom(stream, 0, <<>>)

-----------------------------------------------------------------------------
(* The section splitter: Reader::splittokens *)

\* std::map::operator[] followed by an assignment of the whole pair
MapPut(m, k, v) == [x \in (DOMAIN m) \cup {k} |-> IF x = k THEN v ELSE m[x]]

\* a value-initialised pair of iterators, as operator[] inserts it
NullRange == [first |-> 0, second |-> 0]

\* sectiontokens[k], inserting a value-initialised pair if k is absent
MapAt(m, k) == IF k \in DOMAIN m THEN m[k] ELSE NullRange

\* the for loop of splittokens from position it (positions are 1-based; the
\* end iterator of the vector is Len(toks) + 1)
RECURSIVE SplitFrom(_, _, _, _)
SplitFrom(toks, it, currentsection, st) ==
    IF it = Len(toks) + 1
    THEN [sectiontokens |->
              IF currentsection # "NONE"
              THEN MapPut(st, currentsection,
                          [MapAt(st, currentsection) EXCEPT !.second = Len(toks) + 1])
              ELSE st,
          status |-> "ok"]
    ELSE IF toks[it].type = "SECID"
    THEN LET st1 == IF currentsection # "NONE"
                    THEN MapPut(st, currentsection,
                                [MapAt(st, currentsection) EXCEPT !.second = it])
                    ELSE st
             cur == toks[it].keyword
             next == it + 1
         IN
         IF cur \in DOMAIN st1
         THEN [sectiontokens |-> st1, status |-> "error"]
         ELSE IF next = Len(toks) + 1 \/ toks[next].type = "SECID"
         THEN SplitFrom(toks, it + 1, "NONE", st1)
         ELSE SplitFrom(toks, it + 1, cur,
                        MapPut(st1, cur, [MapAt(st1, cur) EXCEPT !.first = next]))
    ELSE SplitFrom(toks, it + 1, currentsection, st)

\* a splittokens that ends every section at the end of the vector
splittokensUnclosed(toks) ==
    LET r == SplitFrom(toks, 1, "NONE", <<>>) IN
    [r EXCEPT !.sectiontokens =
        [k \in DOMAIN @ |-> [@[k] EXCEPT !.second = Len(toks) + 1]]]

\* a splittokens that records the tokens before the first section keyword
\* as the range of the section NONE
splittokensLeading(toks) ==
    LET r == SplitFrom(toks, 1, "NONE", <<>>)
        secids == { i \in DOMAIN toks : toks[i].type = "SECID" }
        stop == IF secids = {} THEN Len(toks) + 1
                ELSE CHOOSE i \in secids : \A j \in secids : i <= j
    IN IF toks # <<>> /\ toks[1].type # "SECID"
       THEN [r EXCEPT !.sectiontokens =
                MapPut(@, "NONE", [first |-> 1, second |-> stop])]
       ELSE r

\* Reader::splittokens on the whole vector
splittokens(toks) == SplitFrom(toks, 1, "NONE", <<>>)

-----------------------------------------------------------------------------
(* The symbol table and the model: builder.hpp, model.hpp *)

\* Variable(name): lower bound 0, upper bound +infinity, continuous
NewVariable(name) ==
    [name |-> name, lowerbound |-> Dbl(0), upperbound |-> Infinity, type |-> "CONTINUOUS"]

\* Expression(): no name, offset 0, no terms
NewExpression == [name |-> <<>>, offset |-> Dbl(0), linterms |-> <<>>, quadterms |-> <<>>]

\* Constraint(): both bounds infinite
NewConstraint ==
    [expr |-> NewExpression, lowerbound |-> Neg(Infinity), upperbound |-> Infinity]

\* Builder(): an empty model
NewBuilder ==
    [model |-> [sense |-> "UNSET", objective |-> NewExpression, constraints |-> <<>>,
                variables |-> <<>>, soss |-> <<>>]]

HasVariable(b, name) ==
    \E i \in DOMAIN b.model.variables : b.model.variables[i].name = name

\* Builder::getvarbyname(name): registers the variable on its first use
getvarbyname(b, name) ==
    IF HasVariable(b, name) THEN b
    ELSE [b EXCEPT !.model.variables = Append(@, NewVariable(name))]

\* the Variable getvarbyname(name) returns
VariableOf(b, name) ==
    LET vs == getvarbyname(b, name).model.variables
    IN vs[CHOOSE i \in DOMAIN vs : vs[i].name = name]

\* var = getvarbyname(name), then assignments to var's members
SetVariable(b, name, lb, ub, ty) ==
    LET b1 == getvarbyname(b, name) IN
    [b1 EXCEPT !.model.variables =
        [i \in DOMAIN @ |->
            IF @[i].name = name
            THEN [name |-> name, lowerbound |-> lb, upperbound |-> ub, type |-> ty]
            ELSE @[i]]]

-----------------------------------------------------------------------------
(* The expression parser: Reader::parseexpression *)

\* an iterator k places after it, stopping at end (the guarded increments
\* "if( next1 != end ) ++next2" of the code)
Nxt(it, k, end) == IF it + k < end THEN it + k ELSE end

AddLin(expr, coef, name) ==
    [expr EXCEPT !.linterms = Append(@, [coef |-> coef, var |-> name])]

\* a quadratic term that forgets its coefficient
AddQuadUnitCoef(expr, coef, name1, name2) ==
    [expr EXCEPT !.quadterms = Append(@, [coef |-> Dbl(1), var1 |-> name1, var2 |-> name2])]

\* a quadratic term whose second variable is not looked up
AddQuadSecondUnset(expr, coef, name1, name2) ==
    [expr EXCEPT !.quadterms = Append(@, [coef |-> coef, var1 |-> name1, var2 |-> <<>>])]

AddQuad(expr, coef, name1, name2) ==
    [expr EXCEPT !.quadterms = Append(@, [coef |-> coef, var1 |-> name1, var2 |-> name2])]

ParseResult(it, expr, b, st) == [it |-> it, expr |-> expr, builder |-> b, status |-> st]

\* the inner while loop of a bracketed group (reader.cpp 354-438)
RECURSIVE QuadLoop(_, _, _, _, _)
QuadLoop(toks, it, end, b, expr) ==
    IF it = end \/ toks[it].type = "BRKCL"
    THEN ParseResult(it, expr, b, "ok")
    ELSE
    LET next1 == Nxt(it, 1, end)
        next2 == Nxt(it, 2, end)
        next3 == Nxt(it, 3, end)
    IN
    IF /\ next3 # end
       /\ toks[it].type = "CONST"
       /\ toks[next1].type = "VARID"
       /\ toks[next2].type = "HAT"
       /\ toks[next3].type = "CONST"
    THEN IF ~DEq(toks[next3].value, Dbl(2))
         THEN ParseResult(it, expr, b, "error")
         ELSE QuadLoop(toks, next3 + 1, end, getvarbyname(b, toks[next1].name),
                       AddQuad(expr, toks[it].value, toks[next1].name, toks[next1].name))
    ELSE IF /\ next2 # end
            /\ toks[it].type = "VARID"
            /\ toks[next1].type = "HAT"
            /\ toks[next2].type = "CONST"
    THEN IF ~DEq(toks[next2].value, Dbl(2))
         THEN ParseResult(it, expr, b, "error")
         ELSE QuadLoop(toks, next3, end, getvarbyname(b, toks[it].name),
                       AddQuad(expr, Dbl(1), toks[it].name, toks[it].name))
    ELSE IF /\ next3 # end
            /\ toks[it].type = "CONST"
            /\ toks[next1].type = "VARID"
            /\ toks[next2].type = "ASTERISK"
            /\ toks[next3].type = "VARID"
    THEN QuadLoop(toks, next3 + 1, end,
                  getvarbyname(getvarbyname(b, toks[next1].name), toks[next3].name),
                  AddQuad(expr, toks[it].value, toks[next1].name, toks[next3].name))
    ELSE IF /\ next2 # end
            /\ toks[it].type = "VARID"
            /\ toks[next1].type = "ASTERISK"
            /\ toks[next2].type = "VARID"
    THEN QuadLoop(toks, next3, end,
                  getvarbyname(getvarbyname(b, toks[it].name), toks[next2].name),
                  AddQuad(expr, Dbl(1), toks[it].name, toks[next2].name))
    ELSE ParseResult(it, expr, b, "ok")

\* a group closing that takes ']' alone in the objective as well
GroupCloseBracketOnly(toks, it, end, isobj) ==
    IF it # end /\ toks[it].type = "BRKCL" THEN it + 1 ELSE 0

\* what follows the inner loop (reader.cpp 439-457): the position after the
\* group, or 0 when an lpassert fails, or -1 when the code steps an iterator
\* past the end of the vector or reads there (undefined behaviour)
GroupClose(toks, it, end, isobj) ==
    IF isobj
    THEN IF it = end
         THEN \* next1 = end + 1, next2 = end + 2; "next2 != end" passes and
              \* it->type reads the token at end
              IF end + 1 > Len(toks) THEN -1 ELSE 0
         ELSE LET next1 == Nxt(it, 1, end)
                  next2 == Nxt(it, 2, end)
              IN IF /\ next2 # end
                    /\ toks[it].type = "BRKCL"
                    /\ toks[next1].type = "SLASH"
                    /\ toks[next2].type = "CONST"
                    /\ DEq(toks[next2].value, Dbl(2))
                 THEN next2 + 1
                 ELSE 0
    ELSE IF it # end /\ toks[it].type = "BRKCL" THEN it + 1 ELSE 0

RECURSIVE ExprLoop(_, _, _, _, _, _)

\* after the inner loop left q, with c the value of GroupClose: an lpassert
\* throws with the cursor where the inner loop left it, or the outer loop
\* goes on after the group
GroupEnd(toks, q, c, end, isobj) ==
    IF q.status # "ok" THEN q
    ELSE IF c = -1 THEN [q EXCEPT !.status = "oob"]
    ELSE IF c = 0 THEN [q EXCEPT !.status = "error"]
    ELSE ExprLoop(toks, c, end, q.builder, q.expr, isobj)

\* a bracketed group from the token after '[' (reader.cpp 353-458)
Group(toks, q, end, isobj) == GroupEnd(toks, q, GroupClose(toks, q.it, end, isobj), end, isobj)

\* the outer while loop (reader.cpp 314-462)
ExprLoop(toks, it, end, b, expr, isobj) ==
    IF it = end
    THEN ParseResult(it, expr, b, "ok")
    ELSE
    LET next == it + 1 IN
    IF next # end /\ toks[it].type = "CONST" /\ toks[next].type = "VARID"
    THEN ExprLoop(toks, it + 2, end, getvarbyname(b, toks[next].name),
                  AddLin(expr, toks[it].value, toks[next].name), isobj)
    ELSE IF toks[it].type = "CONST"
    THEN ExprLoop(toks, it + 1, end, b,
                  [expr EXCEPT !.offset = DAdd(@, toks[it].value)], isobj)
    ELSE IF toks[it].type = "VARID"
    THEN ExprLoop(toks, it + 1, end, getvarbyname(b, toks[it].name),
                  AddLin(expr, Dbl(1), toks[it].name), isobj)
    ELSE IF next # end /\ toks[it].type = "BRKOP"
    THEN Group(toks, QuadLoop(toks, it + 1, end, b, expr), end, isobj)
    ELSE ParseResult(it, expr, b, "ok")

\* Reader::parseexpression(it, end, expr, isobj)
parseexpression(toks, it, end, b, expr, isobj) ==
    IF it # end /\ toks[it].type = "CONID"
    THEN ExprLoop(toks, it + 1, end, b, [expr EXCEPT !.name = toks[it].name], isobj)
    ELSE ExprLoop(toks, it, end, b, expr, isobj)

-----------------------------------------------------------------------------
(* The section processors *)

\* what a processor leaves: the section map (its cursors are references into
\* it), the builder, and "ok", "error" (an lpassert threw) or "oob"
SecResult(st, b, s) == [sectiontokens |-> st, builder |-> b, status |-> s]

\* the cursor sectiontokens[k].first moved to it
SetFirst(st, k, it) == [st EXCEPT ![k].first = it]

\* what the processor of section k leaves when its loop ended as r: the
\* cursor is a reference to sectiontokens[k].first
Leave(st, k, r) == SecResult(SetFirst(st, k, r.it), r.builder, r.status)

\* what processobjsec leaves when the parser ended as r and the section as s:
\* the expression is the objective itself
LeaveObj(st, k, r, s) ==
    SecResult(SetFirst(st, k, r.it), [r.builder EXCEPT !.model.objective = r.expr], s)

\* Reader::processnonesec
processnonesec(toks, st, b) ==
    SecResult(st, b, IF "NONE" \in DOMAIN st THEN "error" ELSE "ok")

\* a branch of processobjsec that does not look where the parser stopped
ObjBranchUnchecked(toks, st, b, kw, sense) ==
    LET r == parseexpression(toks, st[kw].first, st[kw].second,
                             [b EXCEPT !.model.sense = sense], b.model.objective, TRUE)
    IN LeaveObj(st, kw, r, r.status)

\* the lpassert after the parser returned r: all section tokens should
\* have been processed
ObjChecked(st, kw, r) ==
    LeaveObj(st, kw, r,
             IF r.status # "ok" THEN r.status
             ELSE IF r.it # st[kw].second THEN "error"
             ELSE "ok")

\* the body of one branch of processobjsec, for section kw and sense; the
\* parser moves the cursor sectiontokens[kw].first itself, so it stays where
\* the parser was when an lpassert throws
ObjBranch(toks, st, b, kw, sense) ==
    ObjChecked(st, kw,
               parseexpression(toks, st[kw].first, st[kw].second,
                               [b EXCEPT !.model.sense = sense], b.model.objective, TRUE))

\* a processobjsec that registers no variable of the objective
processobjsecUnregistered(toks, st, b) ==
    LET b0 == [b EXCEPT !.model.objective = NewExpression]
        r == IF "OBJMIN" \in DOMAIN st THEN ObjBranch(toks, st, b0, "OBJMIN", "MIN")
             ELSE IF "OBJMAX" \in DOMAIN st THEN ObjBranch(toks, st, b0, "OBJMAX", "MAX")
             ELSE SecResult(st, b0, "ok")
    IN [r EXCEPT !.builder.model.variables = b.model.variables]

\* Reader::processobjsec
processobjsec(toks, st, b) ==
    LET b0 == [b EXCEPT !.model.objective = NewExpression] IN
    IF "OBJMIN" \in DOMAIN st THEN ObjBranch(toks, st, b0, "OBJMIN", "MIN")
    ELSE IF "OBJMAX" \in DOMAIN st THEN ObjBranch(toks, st, b0, "OBJMAX", "MAX")
    ELSE SecResult(st, b0, "ok")

\* a switch on dir that takes "<=" for a lower bound
ConBoundsLeqLower(con, dir, rhs) ==
    IF dir = "EQ" THEN [con EXCEPT !.lowerbound = rhs, !.upperbound = rhs]
    ELSE IF dir = "LEQ" THEN [con EXCEPT !.lowerbound = rhs]
    ELSE [con EXCEPT !.upperbound = rhs]

\* a switch on dir whose GEQ case sets both bounds
ConBoundsGeqBoth(con, dir, rhs) ==
    IF dir = "EQ" THEN [con EXCEPT !.lowerbound = rhs, !.upperbound = rhs]
    ELSE IF dir = "LEQ" THEN [con EXCEPT !.upperbound = rhs]
    ELSE [con EXCEPT !.lowerbound = rhs, !.upperbound = rhs]

\* the switch on dir of processconsec (reader.cpp 498-510); rhs is the value
ConBounds(con, dir, rhs) ==
    IF dir = "EQ" THEN [con EXCEPT !.lowerbound = rhs, !.upperbound = rhs]
    ELSE IF dir = "LEQ" THEN [con EXCEPT !.upperbound = rhs]
    ELSE [con EXCEPT !.lowerbound = rhs]

RECURSIVE ConLoop(_, _, _, _)

\* one pass of the while loop of processconsec after the parser returned r
\* with the cursor at it (reader.cpp 489-512); the cursor is advanced past
\* the comparison (++begin, reader.cpp 493) before the right-hand side and
\* the direction are checked
ConPass(toks, it, end, r) ==
    LET Fail(at) == [it |-> at, builder |-> r.builder, status |-> "error"] IN
    IF r.status # "ok" THEN [it |-> it, builder |-> r.builder, status |-> r.status]
    ELSE IF it = end THEN Fail(it)
    ELSE IF toks[it].type # "COMP" THEN Fail(it)
    ELSE IF it + 1 = end THEN Fail(it + 1)
    ELSE IF toks[it + 1].type # "CONST" THEN Fail(it + 1)
    ELSE IF toks[it].dir \notin {"EQ", "LEQ", "GEQ"} THEN Fail(it + 1)
    ELSE ConLoop(toks, it + 2, end,
                 [r.builder EXCEPT !.model.constraints =
                     Append(@, ConBounds([NewConstraint EXCEPT !.expr = r.expr],
                                         toks[it].dir, toks[it + 1].value))])

\* the parser's result r with its cursor
ConParsed(toks, end, r) == ConPass(toks, r.it, end, r)

\* the while loop of processconsec
ConLoop(toks, begin, end, b) ==
    IF begin = end THEN [it |-> begin, builder |-> b, status |-> "ok"]
    ELSE ConParsed(toks, end, parseexpression(toks, begin, end, b, NewExpression, FALSE))

\* Reader::processconsec
processconsec(toks, st, b) ==
    IF "CON" \notin DOMAIN st THEN SecResult(st, b, "ok")
    ELSE Leave(st, "CON", ConLoop(toks, st["CON"].first, st["CON"].second, b))

\* a switch for "CONST COMP VAR" that reads the comparison as "VAR COMP CONST"
BoundConstFirstMirrored(v, dir, value) ==
    IF dir = "LEQ" THEN [v EXCEPT !.upperbound = value]
    ELSE IF dir = "GEQ" THEN [v EXCEPT !.lowerbound = value]
    ELSE [v EXCEPT !.lowerbound = value, !.upperbound = value]

\* the switch on dir for "CONST COMP VAR" (reader.cpp 579-591)
BoundConstFirst(v, dir, value) ==
    IF dir = "LEQ" THEN [v EXCEPT !.lowerbound = value]
    ELSE IF dir = "GEQ" THEN [v EXCEPT !.upperbound = value]
    ELSE [v EXCEPT !.lowerbound = value, !.upperbound = value]

\* a switch for "VAR COMP CONST" that reads the comparison as "CONST COMP VAR"
BoundVarFirstMirrored(v, dir, value) ==
    IF dir = "LEQ" THEN [v EXCEPT !.lowerbound = value]
    ELSE IF dir = "GEQ" THEN [v EXCEPT !.upperbound = value]
    ELSE [v EXCEPT !.lowerbound = value, !.upperbound = value]

\* the switch on dir for "VAR COMP CONST" (reader.cpp 608-620)
BoundVarFirst(v, dir, value) ==
    IF dir = "LEQ" THEN [v EXCEPT !.upperbound = value]
    ELSE IF dir = "GEQ" THEN [v EXCEPT !.lowerbound = value]
    ELSE [v EXCEPT !.lowerbound = value, !.upperbound = value]

\* every variable of the model set to the record v
PutVariableAll(b, name, v) ==
    LET b1 == getvarbyname(b, name) IN
    [b1 EXCEPT !.model.variables =
        [i \in DOMAIN @ |->
            [name |-> @[i].name, lowerbound |-> v.lowerbound,
             upperbound |-> v.upperbound, type |-> v.type]]]

\* the variable name set to the record v
PutVariable(b, name, v) == SetVariable(b, name, v.lowerbound, v.upperbound, v.type)

\* the iterator next1 of the "VAR free" test (reader.cpp 522): a copy of
\* begin, tested before it is advanced
FreeNext1(begin, end) == begin

\* the while loop of processboundssec
RECURSIVE BoundsLoop(_, _, _, _)
BoundsLoop(toks, begin, end, b) ==
    IF begin = end THEN [it |-> begin, builder |-> b, status |-> "ok"]
    ELSE
    LET free1 == FreeNext1(begin, end)
        next1 == Nxt(begin, 1, end)
        next2 == Nxt(begin, 2, end)
        next3 == Nxt(begin, 3, end)
        next4 == Nxt(begin, 4, end)
        Fail == [it |-> begin, builder |-> b, status |-> "error"]
        \* getvarbyname(name) is called before the lpassert on dir
        FailKnowing(name) ==
            [it |-> begin, builder |-> getvarbyname(b, name), status |-> "error"]
    IN
    IF /\ free1 # end
       /\ toks[begin].type = "VARID"
       /\ toks[free1].type = "FREE"
    THEN BoundsLoop(toks, free1 + 1, end,
                    SetVariable(b, toks[begin].name, Neg(Infinity), Infinity,
                                VariableOf(b, toks[begin].name).type))
    ELSE IF /\ next4 # end
            /\ toks[begin].type = "CONST"
            /\ toks[next1].type = "COMP"
            /\ toks[next2].type = "VARID"
            /\ toks[next3].type = "COMP"
            /\ toks[next4].type = "CONST"
    THEN IF toks[next1].dir # "LEQ" \/ toks[next3].dir # "LEQ" THEN Fail
         ELSE BoundsLoop(toks, next4 + 1, end,
                         SetVariable(b, toks[next2].name, toks[begin].value, toks[next4].value,
                                     VariableOf(b, toks[next2].name).type))
    ELSE IF /\ next2 # end
            /\ toks[begin].type = "CONST"
            /\ toks[next1].type = "COMP"
            /\ toks[next2].type = "VARID"
    THEN IF toks[next1].dir \in {"L", "G"} THEN FailKnowing(toks[next2].name)
         ELSE BoundsLoop(toks, next3, end,
                         PutVariable(b, toks[next2].name,
                                     BoundConstFirst(VariableOf(b, toks[next2].name),
                                                     toks[next1].dir, toks[begin].value)))
    ELSE IF /\ next2 # end
            /\ toks[begin].type = "VARID"
            /\ toks[next1].type = "COMP"
            /\ toks[next2].type = "CONST"
    THEN IF toks[next1].dir \in {"L", "G"} THEN FailKnowing(toks[begin].name)
         ELSE BoundsLoop(toks, next3, end,
                         PutVariable(b, toks[begin].name,
                                     BoundVarFirst(VariableOf(b, toks[begin].name),
                                                   toks[next1].dir, toks[next2].value)))
    ELSE Fail

\* Reader::processboundssec
processboundssec(toks, st, b) ==
    IF "BOUNDS" \notin DOMAIN st THEN SecResult(st, b, "ok")
    ELSE Leave(st, "BOUNDS", BoundsLoop(toks, st["BOUNDS"].first, st["BOUNDS"].second, b))

\* a binary section that leaves the bounds of the variable as they are
BinVariableKeepsBounds(b, name) ==
    SetVariable(b, name, VariableOf(b, name).lowerbound, VariableOf(b, name).upperbound,
                "BINARY")

\* the body of the loop of processbinsec: type BINARY, bounds [0,1]
BinVariable(b, name) == SetVariable(b, name, Dbl(0), Dbl(1), "BINARY")

\* the type a variable of type ty gets in the general section
GenType(ty) == IF ty = "SEMICONTINUOUS" THEN "SEMIINTEGER" ELSE "GENERAL"

\* a semicontinuous section that forgets that the variable is general
SemiTypeForgetsGeneral(ty) == "SEMICONTINUOUS"

\* the type a variable of type ty gets in the semicontinuous section
SemiType(ty) == IF ty = "GENERAL" THEN "SEMIINTEGER" ELSE "SEMICONTINUOUS"

\* the for loops of processbinsec, processgensec and processsemisec: every
\* token must be a VARID; kind is the section
RECURSIVE VarListLoop(_, _, _, _, _)
VarListLoop(toks, begin, end, b, kind) ==
    IF begin = end THEN [it |-> begin, builder |-> b, status |-> "ok"]
    ELSE IF toks[begin].type # "VARID"
    THEN [it |-> begin, builder |-> b, status |-> "error"]
    ELSE LET name == toks[begin].name
             v == VariableOf(b, name)
         IN VarListLoop(toks, begin + 1, end,
                IF kind = "BIN" THEN BinVariable(b, name)
                ELSE IF kind = "GEN"
                THEN SetVariable(b, name, v.lowerbound, v.upperbound, GenType(v.type))
                ELSE SetVariable(b, name, v.lowerbound, v.upperbound, SemiType(v.type)),
                kind)

\* Reader::processbinsec
processbinsec(toks, st, b) ==
    IF "BIN" \notin DOMAIN st THEN SecResult(st, b, "ok")
    ELSE Leave(st, "BIN", VarListLoop(toks, st["BIN"].first, st["BIN"].second, b, "BIN"))

\* Reader::processgensec
processgensec(toks, st, b) ==
    IF "GEN" \notin DOMAIN st THEN SecResult(st, b, "ok")
    ELSE Leave(st, "GEN", VarListLoop(toks, st["GEN"].first, st["GEN"].second, b, "GEN"))

\* the section whose presence processsemisec tests before it reads
\* sectiontokens[SEMI] (reader.cpp 662)
SemiGuard == "GEN"

\* Reader::processsemisec; sectiontokens[SEMI] inserts a value-initialised
\* pair when the semicontinuous section is absent
processsemisec(toks, st, b) ==
    IF SemiGuard \notin DOMAIN st THEN SecResult(st, b, "ok")
    ELSE LET st1 == MapPut(st, "SEMI", MapAt(st, "SEMI"))
         IN Leave(st1, "SEMI",
                  VarListLoop(toks, st1["SEMI"].first, st1["SEMI"].second, b, "SEMI"))

\* a set type that is 1 whatever was written
SosTypeAlwaysOne(sostype) == 1

\* sos->type = begin->sostype == SosType::SOS1 ? 1 : 2
SosTypeOf(sostype) == IF sostype = "SOS1" THEN 1 ELSE 2

\* the inner while loop of processsossec: the "var : weight" entries
RECURSIVE SosEntries(_, _, _, _, _)
SosEntries(toks, begin, end, b, sos) ==
    IF begin = end THEN [it |-> begin, builder |-> b, sos |-> sos]
    ELSE IF toks[begin].type # "CONID" THEN [it |-> begin, builder |-> b, sos |-> sos]
    ELSE IF begin + 1 # end /\ toks[begin + 1].type = "CONST"
    THEN SosEntries(toks, begin + 2, end, getvarbyname(b, toks[begin].name),
                    [sos EXCEPT !.entries =
                        Append(@, [var |-> toks[begin].name, weight |-> toks[begin + 1].value])])
    ELSE [it |-> begin + 1, builder |-> b, sos |-> sos]

\* the outer while loop of processsossec
RECURSIVE SosLoop(_, _, _, _)
SosLoop(toks, begin, end, b) ==
    IF begin = end THEN [it |-> begin, builder |-> b, status |-> "ok"]
    ELSE IF toks[begin].type # "CONID"
    THEN [it |-> begin, builder |-> b, status |-> "error"]
    ELSE IF begin + 1 = end
    THEN [it |-> begin + 1, builder |-> b, status |-> "error"]
    ELSE IF toks[begin + 1].type # "SOSTYPE"
    THEN [it |-> begin + 1, builder |-> b, status |-> "error"]
    ELSE LET e == SosEntries(toks, begin + 2, end, b,
                             [name |-> toks[begin].name,
                              type |-> SosTypeOf(toks[begin + 1].sostype),
                              entries |-> <<>>])
         IN SosLoop(toks, e.it, end,
                    [e.builder EXCEPT !.model.soss = Append(@, e.sos)])

\* Reader::processsossec
processsossec(toks, st, b) ==
    IF "SOS" \notin DOMAIN st THEN SecResult(st, b, "ok")
    ELSE Leave(st, "SOS", SosLoop(toks, st["SOS"].first, st["SOS"].second, b))

\* a processendsec that accepts an end section with content
processendsecLenient(toks, st, b) == SecResult(st, b, "ok")

\* Reader::processendsec
processendsec(toks, st, b) ==
    SecResult(st, b, IF "END" \in DOMAIN st THEN "error" ELSE "ok")

-----------------------------------------------------------------------------
(* Reader::read with its lines 280-291 (the window is filled, the tokens   *)
(* are processed, the line buffer is cleared) as one step, and one step    *)
(* per call after them                                                      *)

\* Reader(filename) on a file with this text: nothing lexed or processed
\* yet, read() about to start
ReadStart(text) ==
    /\ file = text
    /\ fileeof = FALSE
    /\ linebuffer = <<>>
    /\ linebufferpos = 0
    /\ rawtokens = [i \in 1..5 |-> NoToken]
    /\ rawtokenpos = 0
    /\ lexpc = "idle"
    /\ lexi = 0
    /\ lexout = <<>>
    /\ rawstream = <<>>
    /\ processedtokens = <<>>
    /\ sectiontokens = <<>>
    /\ builder = NewBuilder
    /\ pc = "processtokens"
    /\ status = "running"

\* the members of the reader that lines 280-291 work on, with the place
\* read() is at (pc; lexi and lexpc inside the loops) and how it goes
\* (status; "assert" once an assert has failed)
Members ==
    [file |-> file, fileeof |-> fileeof, linebuffer |-> linebuffer,
     linebufferpos |-> linebufferpos, rawtokens |-> rawtokens,
     rawtokenpos |-> rawtokenpos, lexpc |-> lexpc, lexi |-> lexi, lexout |-> lexout,
     processedtokens |-> processedtokens, pc |-> pc, status |-> status, ret |-> "true"]

\* rawtoken(0) ... rawtoken(4) of the members m
WindowOf(m) == [i \in 1..5 |-> m.rawtokens[((m.rawtokenpos + i - 1) % 5) + 1]]

\* what a call readnexttoken(rawtokens[slot]) that ended as r leaves of the
\* members m, and what it returned (ret); an lpassert or an assert that
\* fails ends read()
ReadCalled(m, slot, r) ==
    [m EXCEPT !.file = r.file, !.fileeof = r.fileeof,
              !.linebuffer = r.linebuffer, !.linebufferpos = r.linebufferpos,
              !.ret = r.ret,
              !.rawtokens = IF r.ret = "true" THEN [@ EXCEPT ![slot] = r.token] ELSE @,
              !.lexout = IF r.ret = "true" THEN Append(@, r.token) ELSE @,
              !.pc = IF r.ret \in {"true", "false"} THEN @ ELSE "done",
              !.status = IF r.ret \in {"true", "false"} THEN @ ELSE r.ret]

\* one call readnexttoken(rawtokens[slot]) inside
\* "while( !readnexttoken(..) ) ;;"
ReadCall(m, slot) ==
    ReadCalled(m, slot, readnexttoken(m.file, m.fileeof, m.linebuffer, m.linebufferpos))

\* the loop that fills the window after a call that left c: it goes on to
\* the next slot when the call returned true, and repeats the call otherwise
FillCalled(m, c) ==
    [c EXCEPT !.lexi = IF c.ret = "true" THEN m.lexi + 1 ELSE @,
              !.pc = IF c.ret # "true" THEN @
                     ELSE IF m.lexi + 1 = 5 THEN "classify" ELSE "fill"]

\* one call of the loop that fills the window (read() lines 284-286)
FillCall(m) == FillCalled(m, ReadCall(m, m.lexi + 1))

\* the loop of nextrawtoken(howmany) after a call that left c
NextRawTokenCalled(m, c) ==
    [c EXCEPT !.rawtokenpos = IF c.ret = "true" THEN m.rawtokenpos + 1 ELSE @,
              !.lexi = IF c.ret = "true" THEN m.lexi - 1 ELSE @,
              !.pc = IF c.ret # "true" THEN @
                     ELSE IF m.lexi = 1 THEN m.lexpc ELSE "nextrawtoken",
              !.lexpc = IF c.ret = "true" /\ m.lexi = 1 THEN "idle" ELSE @]

\* one call of the loop of nextrawtoken(howmany), m.lexi calls still to
\* make
NextRawTokenCall(m) == NextRawTokenCalled(m, ReadCall(m, (m.rawtokenpos % 5) + 1))

\* a pass of the while loop of processtokens that ended as r
ClassifyDone(m, r) ==
    IF r.err
    THEN [m EXCEPT !.pc = "done", !.status = "error"]
    ELSE [m EXCEPT !.processedtokens = @ \o r.emit,
                   !.pc = "nextrawtoken",
                   !.lexi = r.adv,
                   !.lexpc = "classify"]

\* a pass of the while loop of processtokens on the window w
ClassifyWindow(m, w) ==
    IF w[1].type = "FLEND"
    THEN [m EXCEPT !.pc = "splittokens", !.linebuffer = <<>>]
    ELSE IF w[1].type = "SLASH" /\ w[2].type = "ASTERISK"
    THEN [m EXCEPT !.pc = "nextrawtoken", !.lexi = 2, !.lexpc = "comment"]
    ELSE ClassifyDone(m, ClassifyStep(w, 0))

\* one pass of the while loop of processtokens, up to its call of
\* nextrawtoken; at FLEND the loop ends, and read() clears the line buffer
\* and comes to splittokens
ClassifyPass(m) == ClassifyWindow(m, WindowOf(m))

\* the condition of the do-while that skips a comment, and the
\* nextrawtoken(2) after the loop
CommentPass(m) ==
    [m EXCEPT !.pc = "nextrawtoken",
              !.lexi = 2,
              !.lexpc = IF /\ ~(/\ WindowOf(m)[1].type = "ASTERISK"
                                /\ WindowOf(m)[2].type = "SLASH")
                           /\ WindowOf(m)[1].type # "FLEND"
                        THEN "comment"
                        ELSE "classify"]

\* the places of read() in its lines 280-291
ReadPlaces == {"fill", "nextrawtoken", "classify", "comment"}

\* the next step of read() in its lines 280-291
ReadStep(m) ==
    IF m.pc = "fill" THEN FillCall(m)
    ELSE IF m.pc = "nextrawtoken" THEN NextRawTokenCall(m)
    ELSE IF m.pc = "classify" THEN ClassifyPass(m)
    ELSE CommentPass(m)

\* at most n steps of read() from m, fewer when it leaves lines 280-291
\* before
RECURSIVE ReadSteps(_, _)
ReadSteps(m, n) ==
    IF m.pc \notin ReadPlaces THEN m
    ELSE IF n = 1 THEN ReadStep(m)
    ELSE ReadSteps(ReadSteps(m, n \div 2), n - n \div 2)

\* more steps than lines 280-291 take on a file f: a call of readnexttoken
\* that returns false passes a character or has read a line, a call that
\* returns true fills the window or follows a token consumed, and a pass
\* of a loop of processtokens starts at a token before the end of the file
MaxSteps(f) == 5 * Len(f) + 13

\* read() lines 280-291 from the members m to their end (pc is
\* "splittokens") or to the lpassert or assert that fails (pc is "done")
ReadToSplit(m) == ReadSteps([m EXCEPT !.pc = "fill"], MaxSteps(m.file))

\* how a call ends: "ok" goes on; an lpassert that fails throws out of
\* read(); behaviour that is undefined may throw as well, or do anything else
Outcomes(s) == IF s = "oob" THEN {"error", "undefined"} ELSE {s}

\* one section processor: read() calls it at cur and goes on to nxt
CallSection(cur, nxt, r) ==
    /\ pc = cur
    /\ sectiontokens' = r.sectiontokens
    /\ builder' = r.builder
    /\ IF r.status = "ok"
       THEN pc' = nxt /\ status' = status
       ELSE pc' = "done" /\ status' \in Outcomes(r.status)
    /\ UNCHANGED <<written, rawstream, processedtokens>>
    /\ UNCHANGED lexvars

\* the members become what m says; a failing assert ends the process where
\* asserts are compiled in ("aborted"), and where they are not, the call
\* returns false and has changed nothing, so that the while loop repeats
\* it for ever ("hung")
Becomes(m) ==
    /\ file' = m.file
    /\ fileeof' = m.fileeof
    /\ linebuffer' = m.linebuffer
    /\ linebufferpos' = m.linebufferpos
    /\ rawtokens' = m.rawtokens
    /\ rawtokenpos' = m.rawtokenpos
    /\ lexpc' = m.lexpc
    /\ lexi' = m.lexi
    /\ lexout' = m.lexout
    /\ processedtokens' = m.processedtokens
    /\ pc' = m.pc
    /\ status' \in (IF m.status = "assert" THEN {"aborted", "hung"} ELSE {m.status})
    /\ rawstream' = IF m.pc = "splittokens"
                    THEN SelectSeq(m.lexout, LAMBDA t : t.type # "FLEND")
                    ELSE rawstream

\* read() lines 280-291: the window is filled, processtokens() consumes the
\* raw tokens through nextrawtoken, linebuffer.clear()
ProcessTokens ==
    /\ pc = "processtokens"
    /\ Becomes(ReadToSplit(Members))
    /\ UNCHANGED <<written, sectiontokens, builder>>

SplitTokens ==
    /\ pc = "splittokens"
    /\ LET r == splittokens(processedtokens) IN
       /\ sectiontokens' = r.sectiontokens
       /\ IF r.status = "ok"
          THEN pc' = "processnonesec" /\ status' = status
          ELSE pc' = "done" /\ status' = "error"
    /\ UNCHANGED <<written, rawstream, processedtokens, builder>>
    /\ UNCHANGED lexvars

ProcessNoneSec ==
    CallSection("processnonesec", "processobjsec",
                processnonesec(processedtokens, sectiontokens, builder))

ProcessObjSec ==
    CallSection("processobjsec", "processconsec",
                processobjsec(processedtokens, sectiontokens, builder))

ProcessConSec ==
    CallSection("processconsec", "processboundssec",
                processconsec(processedtokens, sectiontokens, builder))

ProcessBoundsSec ==
    CallSection("processboundssec", "processgensec",
                processboundssec(processedtokens, sectiontokens, builder))

ProcessGenSec ==
    CallSection("processgensec", "processbinsec",
                processgensec(processedtokens, sectiontokens, builder))

ProcessBinSec ==
    CallSection("processbinsec", "processsemisec",
                processbinsec(processedtokens, sectiontokens, builder))

ProcessSemiSec ==
    CallSection("processsemisec", "processsossec",
                processsemisec(processedtokens, sectiontokens, builder))

ProcessSosSec ==
    CallSection("processsossec", "processendsec",
                processsossec(processedtokens, sectiontokens, builder))

ProcessEndSec ==
    CallSection("processendsec", "return",
                processendsec(processedtokens, sectiontokens, builder))

\* processedtokens.clear(); return builder.model
Return ==
    /\ pc = "return"
    /\ processedtokens' = <<>>
    /\ pc' = "done"
    /\ status' = "ok"
    /\ UNCHANGED <<written, rawstream, sectiontokens, builder>>
    /\ UNCHANGED lexvars

-----------------------------------------------------------------------------
(* Reader::read token by token: the lexer fills the window of five raw     *)
(* tokens, and processtokens consumes it through nextrawtoken              *)

\* Reader(filename), read() lines 280-281: nothing lexed yet
LexStart ==
    /\ fileeof = FALSE
    /\ linebuffer = <<>>
    /\ linebufferpos = 0
    /\ rawtokens = [i \in 1..5 |-> NoToken]
    /\ rawtokenpos = 0
    /\ lexpc = "idle"
    /\ lexi = 0
    /\ lexout = <<>>
    /\ rawstream = <<>>
    /\ processedtokens = <<>>
    /\ sectiontokens = <<>>
    /\ builder = NewBuilder
    /\ pc = "fill"
    /\ status = "running"

\* a window read from the first slot, whatever rawtokenpos is
WindowUnrotated == rawtokens

\* rawtoken(0) ... rawtoken(4)
Window == [i \in 1..5 |-> rawtokens[((rawtokenpos + i - 1) % 5) + 1]]

\* what follows one call readnexttoken(rawtokens[slot]) that ended as r
\* inside "while( !readnexttoken(..) ) ;;": what the loop around it does next.  A failing assert ends the process
\* where asserts are compiled in ("aborted"); where they are not, the call
\* returns false and has changed nothing, so the while loop repeats it for
\* ever ("hung").
Called(r, slot, onToken) ==
    /\ file' = r.file
    /\ fileeof' = r.fileeof
    /\ linebuffer' = r.linebuffer
    /\ linebufferpos' = r.linebufferpos
    /\ IF r.ret = "true"
       THEN /\ rawtokens' = [rawtokens EXCEPT ![slot] = r.token]
            /\ lexout' = Append(lexout, r.token)
            /\ onToken
            /\ status' = status
       ELSE /\ UNCHANGED <<rawtokens, lexout, lexi, rawtokenpos, lexpc>>
            /\ IF r.ret = "false" THEN pc' = pc /\ status' = status
               ELSE IF r.ret = "error" THEN pc' = "done" /\ status' = "error"
               ELSE pc' = "done" /\ status' \in {"aborted", "hung"}
    /\ UNCHANGED <<written, rawstream, processedtokens, sectiontokens, builder>>

\* one call readnexttoken(rawtokens[slot]) of that loop
CallReadNextToken(slot, onToken) ==
    Called(readnexttoken(file, fileeof, linebuffer, linebufferpos), slot, onToken)

\* read(): for(i = 0; i < 5; ++i) while( !readnexttoken(rawtokens[i]) ) ;;
Fill ==
    /\ pc = "fill"
    /\ CallReadNextToken(lexi + 1,
           /\ lexi' = lexi + 1
           /\ pc' = IF lexi + 1 = 5 THEN "classify" ELSE "fill"
           /\ UNCHANGED <<rawtokenpos, lexpc>>)

\* nextrawtoken(howmany), lexi calls still to make: it returns to lexpc
NextRawToken ==
    /\ pc = "nextrawtoken"
    /\ CallReadNextToken((rawtokenpos % 5) + 1,
           /\ rawtokenpos' = rawtokenpos + 1
           /\ lexi' = lexi - 1
           /\ pc' = IF lexi = 1 THEN lexpc ELSE "nextrawtoken"
           /\ lexpc' = IF lexi = 1 THEN "idle" ELSE lexpc)

\* one pass of the while loop of processtokens, up to its call of
\* nextrawtoken; at FLEND the loop ends, and read() does linebuffer.clear()
\* and goes on to splittokens
Classify ==
    /\ pc = "classify"
    /\ IF Window[1].type = "FLEND"
       THEN /\ pc' = "splittokens"
            /\ linebuffer' = <<>>
            /\ rawstream' = SelectSeq(lexout, LAMBDA t : t.type # "FLEND")
            /\ UNCHANGED <<processedtokens, lexi, lexpc, status>>
       ELSE IF Window[1].type = "SLASH" /\ Window[2].type = "ASTERISK"
       THEN /\ pc' = "nextrawtoken"
            /\ lexi' = 2
            /\ lexpc' = "comment"
            /\ UNCHANGED <<processedtokens, rawstream, status, linebuffer>>
       ELSE LET r == ClassifyStep(Window, 0) IN
            IF r.err
            THEN /\ pc' = "done"
                 /\ status' = "error"
                 /\ UNCHANGED <<processedtokens, rawstream, lexi, lexpc, linebuffer>>
            ELSE /\ processedtokens' = processedtokens \o r.emit
                 /\ pc' = "nextrawtoken"
                 /\ lexi' = r.adv
                 /\ lexpc' = "classify"
                 /\ UNCHANGED <<rawstream, status, linebuffer>>
    /\ UNCHANGED <<file, fileeof, linebufferpos, rawtokens, rawtokenpos, lexout>>
    /\ UNCHANGED <<written, sectiontokens, builder>>

\* a comment loop in which the end of the file inside a comment is an error
CommentUnclosedFails ==
    /\ pc = "comment"
    /\ IF Window[1].type = "FLEND"
       THEN pc' = "done" /\ status' = "error" /\ UNCHANGED <<lexi, lexpc>>
       ELSE /\ pc' = "nextrawtoken"
            /\ lexi' = 2
            /\ lexpc' = IF ~(Window[1].type = "ASTERISK" /\ Window[2].type = "SLASH")
                        THEN "comment"
                        ELSE "classify"
            /\ status' = status
    /\ UNCHANGED <<file, fileeof, linebuffer, linebufferpos, rawtokens, rawtokenpos, lexout>>
    /\ UNCHANGED <<written, rawstream, processedtokens, sectiontokens, builder>>

\* the condition of the do-while that skips a comment, and the
\* nextrawtoken(2) after the loop
Comment ==
    /\ pc = "comment"
    /\ pc' = "nextrawtoken"
    /\ lexi' = 2
    /\ lexpc' = IF /\ ~(Window[1].type = "ASTERISK" /\ Window[2].type = "SLASH")
                   /\ Window[1].type # "FLEND"
                THEN "comment"
                ELSE "classify"
    /\ UNCHANGED <<file, fileeof, linebuffer, linebufferpos, rawtokens, rawtokenpos, lexout>>
    /\ UNCHANGED <<written, rawstream, processedtokens, sectiontokens, builder, status>>

Next ==
    \/ ProcessTokens
    \/ SplitTokens
    \/ ProcessNoneSec
    \/ ProcessObjSec
    \/ ProcessConSec
    \/ ProcessBoundsSec
    \/ ProcessGenSec
    \/ ProcessBinSec
    \/ ProcessSemiSec
    \/ ProcessSosSec
    \/ ProcessEndSec
    \/ Return

\* read() from the first character of the file
NextLex ==
    \/ Fill
    \/ NextRawToken
    \/ Classify
    \/ Comment
    \/ SplitTokens
    \/ ProcessNoneSec
    \/ ProcessObjSec
    \/ ProcessConSec
    \/ ProcessBoundsSec
    \/ ProcessGenSec
    \/ ProcessBinSec
    \/ ProcessSemiSec
    \/ ProcessSosSec
    \/ ProcessEndSec
    \/ Return

-----------------------------------------------------------------------------
(* Input files.  A file is drawn as what it says (written), spelled out    *)
(* as text (Spell of its tokens, one blank between them) and read from its *)
(* first character.                                                        *)

\* the largest constant written in an input file
MaxVal == 2

\* the variable names used in input files
Names == { <<"x">>, <<"y">> }

\* the constants used in input files
Vals == {-1} \cup (1..MaxVal)

Comps == {"LEQ", "L", "EQ", "G", "GEQ"}

\* a number as written: the lexer delivers '-' as a token of its own
RNum(v) == IF v < 0 THEN <<RawSym("MINUS"), RawCons(Dbl(0 - v))>> ELSE <<RawCons(Dbl(v))>>

\* a comparison as written: <=, <, =, >, >=
RCmp(c) ==
    IF c = "LEQ" THEN <<RawSym("LESS"), RawSym("EQUAL")>>
    ELSE IF c = "L" THEN <<RawSym("LESS")>>
    ELSE IF c = "EQ" THEN <<RawSym("EQUAL")>>
    ELSE IF c = "G" THEN <<RawSym("GREATER")>>
    ELSE <<RawSym("GREATER"), RawSym("EQUAL")>>

RWord(s) == <<RawStr(s)>>

\* the character that the lexer turns into a token of the type t
SymChar(t) ==
    CHOOSE c \in {"[", "]", "<", ">", "=", ":", "+", "^", "/", "*", "-"} :
        SingleCharToken(c) = t

\* the decimal digits of the int n >= 0
RECURSIVE DecDigits(_)
DecDigits(n) ==
    IF n < 10 THEN <<Digits[n + 1]>>
    ELSE Append(DecDigits(n \div 10), Digits[(n % 10) + 1])

\* a raw token as written: a word as it is, a whole number in decimal
\* digits, any other token as its character
SpellToken(t) ==
    IF t.type = "STR" THEN t.svalue
    ELSE IF t.type = "CONS" THEN DecDigits(BToInt(t.dvalue.m))
    ELSE <<SymChar(t.type)>>

\* the text of the file that says the raw tokens ts on one line, a blank
\* between two tokens
RECURSIVE Spell(_)
Spell(ts) ==
    IF ts = <<>> THEN <<>>
    ELSE IF Len(ts) = 1 THEN SpellToken(ts[1])
    ELSE Spell(SubSeq(ts, 1, Len(ts) \div 2)) \o <<" ">>
         \o Spell(SubSeq(ts, Len(ts) \div 2 + 1, Len(ts)))

W_min == RWord(<<"m","i","n">>)
W_max == RWord(<<"m","a","x">>)
W_st == RWord(<<"s","t">>)
W_bounds == RWord(<<"b","o","u","n","d","s">>)
W_bin == RWord(<<"b","i","n">>)
W_gen == RWord(<<"g","e","n">>)
W_semi == RWord(<<"s","e","m","i">>)
W_sos == RWord(<<"s","o","s">>)
W_end == RWord(<<"e","n","d">>)
W_free == RWord(<<"f","r","e","e">>)

RECURSIVE Flatten(_)
Flatten(ss) == IF ss = <<>> THEN <<>> ELSE Head(ss) \o Flatten(Tail(ss))

\* the text as it is, or with the objective "min x" before and "end" after
RFramed(framed, body) ==
    IF framed THEN W_min \o RWord(<<"x">>) \o body \o W_end ELSE body

-----------------------------------------------------------------------------
(* Files with a bounds section *)

\* what is written for one bound: "x free", "lo c1 x c2 hi", "val cmp x",
\* "x cmp val"
FreeItems == [form : {"free"}, var : Names]
DoubleItems == [form : {"double"}, lo : Vals, c1 : Comps, var : Names, c2 : Comps, hi : Vals]
ConstVarItems == [form : {"constvar"}, val : Vals, cmp : Comps, var : Names]
VarConstItems == [form : {"varconst"}, var : Names, cmp : Comps, val : Vals]

\* "x <= a", "x >= a", "x = a"
PlainItems == [form : {"varconst"}, var : Names, cmp : {"LEQ", "GEQ", "EQ"}, val : Vals]

\* "a <= x <= b"
RangeItem(a, x, b) ==
    [form |-> "double", lo |-> a, c1 |-> "LEQ", var |-> x, c2 |-> "LEQ", hi |-> b]
RangeItems == { RangeItem(a, x, b) : a \in Vals, x \in Names, b \in Vals }

VarConstItem(x, c, a) == [form |-> "varconst", var |-> x, cmp |-> c, val |-> a]

RItem(i) ==
    IF i.form = "free" THEN RWord(i.var) \o W_free
    ELSE IF i.form = "double"
    THEN RNum(i.lo) \o RCmp(i.c1) \o RWord(i.var) \o RCmp(i.c2) \o RNum(i.hi)
    ELSE IF i.form = "constvar" THEN RNum(i.val) \o RCmp(i.cmp) \o RWord(i.var)
    ELSE RWord(i.var) \o RCmp(i.cmp) \o RNum(i.val)

\* a bounds section of one item of any shape; of two items that are "x free"
\* or a well-formed "x cmp a"; or of "a <= x <= b" before or after a
\* well-formed "x cmp a"
BoundsItemLists ==
    { <<i>> : i \in FreeItems \cup DoubleItems \cup ConstVarItems \cup VarConstItems }
    \cup { <<i, j>> : i \in FreeItems \cup PlainItems, j \in FreeItems \cup PlainItems }
    \cup { <<i, j>> : i \in RangeItems, j \in PlainItems }
    \cup { <<j, i>> : i \in RangeItems, j \in PlainItems }

BoundsFiles == [kind : {"bounds"}, framed : BOOLEAN, items : BoundsItemLists]

RBoundsFile(w) ==
    RFramed(w.framed, W_bounds \o Flatten([k \in DOMAIN w.items |-> RItem(w.items[k])]))

InitBounds ==
    /\ written \in BoundsFiles
    /\ ReadStart(Spell(RBoundsFile(written)))

SpecBounds == InitBounds /\ [][Next]_vars

-----------------------------------------------------------------------------
(* What read() returned *)

Returned == pc = "done" /\ status = "ok"
Failed == pc = "done" /\ status = "error"

\* <<lower bound, upper bound>> of the variable called name in the model
BoundsOf(name) ==
    LET v == VariableOf(builder, name) IN <<v.lowerbound, v.upperbound>>

TypeOf(name) == VariableOf(builder, name).type

\* read() is over for a file with a bounds section of these items
ReadBounds(items) == pc = "done" /\ written.kind = "bounds" /\ written.items = items

-----------------------------------------------------------------------------
(* C2 *)

\* C2: in the bounds section, a variable reference followed by the free
\* marker sets that variable's bounds to (-infinity, +infinity), and the
\* parse continues with the token after the free marker: a file whose bounds
\* section is "x free", alone or followed by a well-formed bound on another
\* variable, is read, x is free and the other bound is applied.
C2_FreeSetsInfiniteBounds ==
    \A x \in Names :
        LET free == [form |-> "free", var |-> x] IN
        /\ ReadBounds(<<free>>)
              => /\ status = "ok"
                 /\ HasVariable(builder, x)
                 /\ BoundsOf(x) = <<Neg(Infinity), Infinity>>
        /\ \A y \in Names \ {x} : \A a \in Vals :
              ReadBounds(<<free, VarConstItem(y, "LEQ", a)>>)
                 => /\ status = "ok"
                    /\ HasVariable(builder, x)
                    /\ BoundsOf(x) = <<Neg(Infinity), Infinity>>
                    /\ BoundsOf(y) = <<Dbl(0), Dbl(a)>>

-----------------------------------------------------------------------------
(* C8 *)

\* the bounds sections that say a <= x <= b: the double-sided bound, the two
\* single-sided bounds in either order, and the double-sided bound before or
\* after a well-formed bound on another variable
SaysRange(a, x, b) ==
    { <<RangeItem(a, x, b)>>,
      <<VarConstItem(x, "GEQ", a), VarConstItem(x, "LEQ", b)>>,
      <<VarConstItem(x, "LEQ", b), VarConstItem(x, "GEQ", a)>> }
    \cup { <<RangeItem(a, x, b), j>> : j \in { i \in PlainItems : i.var # x } }
    \cup { <<j, RangeItem(a, x, b)>> : j \in { i \in PlainItems : i.var # x } }

\* C8: for any constants a, b and variable x, a bounds section with the
\* double-sided bound "a <= x <= b" and a bounds section with the two
\* single-sided bounds "x >= a" and "x <= b", in either order, are both read
\* and give x the same bounds: lower bound a and upper bound b.  The same
\* holds when a well-formed bound on another variable precedes or follows.
C8_DoubleEqualsTwoSingles ==
    (pc = "done" /\ written.kind = "bounds") =>
        \A x \in Names : \A a \in Vals : \A b \in Vals :
            written.items \in SaysRange(a, x, b)
               => /\ status = "ok"
                  /\ HasVariable(builder, x)
                  /\ BoundsOf(x) = <<Dbl(a), Dbl(b)>>

\* a file with "x <= 2" then "x >= -1" has been read and x is in [-1, 2]
C8_Witness ==
    /\ Returned
    /\ ReadBounds(<<VarConstItem(<<"x">>, "LEQ", 2), VarConstItem(<<"x">>, "GEQ", -1)>>)
    /\ BoundsOf(<<"x">>) = <<Dbl(-1), Dbl(2)>>

-----------------------------------------------------------------------------
(* Files with a special-ordered-set section *)

\* the largest number of entries written in one set
MaxEntries == 2

SetNames == { <<"s","a">>, <<"s","b">> }

\* the weights written in input files
SosWeights == {1, MaxVal}

\* what is written for one set: its name, its type, its entries in order
EntryLists == UNION { [1..k -> [var : Names, weight : SosWeights]] : k \in 0..MaxEntries }
SosSets == [name : SetNames, type : {1, 2}, entries : EntryLists]

\* the sets written second in a file with two sets
SecondSets ==
    [name : {<<"s","b">>}, type : {1, 2},
     entries : {<<>>, <<[var |-> <<"y">>, weight |-> 1]>>}]

\* "x : w"
REntry(e) == RWord(e.var) \o <<RawSym("COLON")>> \o RNum(e.weight)

\* "name : S1 :: x1 : w1 x2 : w2"
RSet(d) ==
    RWord(d.name) \o <<RawSym("COLON")>>
    \o RWord(<<"S", IF d.type = 1 THEN "1" ELSE "2">>)
    \o <<RawSym("COLON"), RawSym("COLON")>>
    \o Flatten([i \in DOMAIN d.entries |-> REntry(d.entries[i])])

\* files with one set; with two sets; with one set and then a label that
\* has no weight (trailing)
SosFiles ==
    [kind : {"sos"}, framed : BOOLEAN, sets : { <<d>> : d \in SosSets }, trailing : {<<>>}]
    \cup [kind : {"sos"}, framed : {FALSE},
          sets : { <<d, e>> : d \in SosSets, e \in SecondSets }, trailing : {<<>>}]
    \cup [kind : {"sos"}, framed : {FALSE},
          sets : { <<d>> : d \in SosSets }, trailing : Names]

RSosFile(w) ==
    RFramed(w.framed,
            W_sos \o Flatten([k \in DOMAIN w.sets |-> RSet(w.sets[k])])
            \o (IF w.trailing = <<>> THEN <<>> ELSE RWord(w.trailing) \o <<RawSym("COLON")>>))

InitSos ==
    /\ written \in SosFiles
    /\ ReadStart(Spell(RSosFile(written)))

SpecSos == InitSos /\ [][Next]_vars

\* the SpecialOrderedSet a written set stands for
SosOf(d) ==
    [name |-> d.name, type |-> d.type,
     entries |-> [i \in DOMAIN d.entries |->
                     [var |-> d.entries[i].var, weight |-> Dbl(d.entries[i].weight)]]]

\* read() is over for a file with a section of well-formed sets only
ReadSets == pc = "done" /\ written.kind = "sos" /\ written.trailing = <<>>

-----------------------------------------------------------------------------
(* C5 *)

\* C5: a special-ordered-set section with k >= 1 consecutive well-formed set
\* definitions is read and appends k SpecialOrderedSets to the model in file
\* order, each with its own name, type and entries.
C5_SetsAppendedInOrder ==
    ReadSets
       => /\ status = "ok"
          /\ builder.model.soss = [k \in DOMAIN written.sets |-> SosOf(written.sets[k])]

-----------------------------------------------------------------------------
(* C6 *)

\* C6: a special-ordered-set section holding the single set
\* "name: S<t>:: v1:w1 ... vn:wn" is read and produces exactly one
\* SpecialOrderedSet with that name, type t and the entries (v1,w1) ...
\* (vn,wn) in the order written, each vi registered in the symbol table.
C6_SingleSet ==
    (ReadSets /\ Len(written.sets) = 1)
       => LET d == written.sets[1] IN
          /\ status = "ok"
          /\ builder.model.soss = <<SosOf(d)>>
          /\ \A i \in DOMAIN d.entries : HasVariable(builder, d.entries[i].var)

\* "sos sa: S2:: y:2 x:1" has been read
C6_Witness ==
    /\ Returned
    /\ ReadSets
    /\ written.sets = << [name |-> <<"s","a">>, type |-> 2,
                          entries |-> << [var |-> <<"y">>, weight |-> MaxVal],
                                         [var |-> <<"x">>, weight |-> 1] >>] >>
    /\ Len(builder.model.soss) = 1
    /\ builder.model.soss[1].type = 2
    /\ builder.model.soss[1].entries[1] = [var |-> <<"y">>, weight |-> Dbl(MaxVal)]

-----------------------------------------------------------------------------
(* Files with a constraints section *)

\* the largest number of terms written in one constraint
MaxTerms == 2

\* the coefficients written in constraints
Coefs == {-1, MaxVal}

\* what is written for one constraint: "c1 x1 + c2 x2 cmp rhs"
TermLists == UNION { [1..k -> [coef : Coefs, var : Names]] : k \in 1..MaxTerms }
WrittenCons == [terms : TermLists, cmp : Comps, rhs : Vals]

\* the constraints written first in a file with two constraints
FirstCons ==
    { [terms |-> <<[coef |-> MaxVal, var |-> <<"x">>]>>, cmp |-> "LEQ", rhs |-> 1],
      [terms |-> <<[coef |-> -1, var |-> <<"y">>]>>, cmp |-> "GEQ", rhs |-> -1] }

\* a term as written: the first as "c x", a later one as "+ c x" or "- c x"
RTerm(t, first) ==
    (IF first THEN RNum(t.coef)
     ELSE IF t.coef < 0 THEN <<RawSym("MINUS"), RawCons(Dbl(0 - t.coef))>>
     ELSE <<RawSym("PLUS"), RawCons(Dbl(t.coef))>>)
    \o RWord(t.var)

RCon(d) ==
    Flatten([i \in DOMAIN d.terms |-> RTerm(d.terms[i], i = 1)]) \o RCmp(d.cmp) \o RNum(d.rhs)

\* files with one constraint, or with two
ConFiles ==
    [kind : {"con"}, framed : BOOLEAN, cons : { <<d>> : d \in WrittenCons }]
    \cup [kind : {"con"}, framed : {FALSE},
          cons : { <<d0, d>> : d0 \in FirstCons, d \in WrittenCons }]

RConFile(w) ==
    RFramed(w.framed, W_st \o Flatten([k \in DOMAIN w.cons |-> RCon(w.cons[k])]))

InitCon ==
    /\ written \in ConFiles
    /\ ReadStart(Spell(RConFile(written)))

SpecCon == InitCon /\ [][Next]_vars

\* the Constraint a written constraint with "<=" stands for
LeqConstraintOf(d) ==
    [expr |-> [name |-> <<>>, offset |-> Dbl(0),
               linterms |-> [i \in DOMAIN d.terms |->
                                [coef |-> Dbl(d.terms[i].coef), var |-> d.terms[i].var]],
               quadterms |-> <<>>],
     lowerbound |-> Neg(Infinity),
     upperbound |-> Dbl(d.rhs)]

-----------------------------------------------------------------------------
(* C3 *)

\* C3: a constraint written as a sum of "coefficient variable" terms followed
\* by "<= k" is read into a Constraint whose lower bound is -infinity, whose
\* upper bound is k and whose linear terms are the (coefficient, variable)
\* pairs in the order written; this holds for every such constraint of a
\* constraints section whose constraints all compare with <=, = or >=.
C3_LinearLeqConstraint ==
    (pc = "done" /\ written.kind = "con"
       /\ \A k \in DOMAIN written.cons : written.cons[k].cmp \in {"LEQ", "EQ", "GEQ"})
       => \A k \in DOMAIN written.cons :
             written.cons[k].cmp = "LEQ"
                => /\ status = "ok"
                   /\ Len(builder.model.constraints) = Len(written.cons)
                   /\ builder.model.constraints[k] = LeqConstraintOf(written.cons[k])

\* "st 2 x - 1 y <= 1" has been read
C3_Witness ==
    /\ Returned
    /\ written.kind = "con"
    /\ written.cons = << [terms |-> << [coef |-> MaxVal, var |-> <<"x">>],
                                       [coef |-> -1, var |-> <<"y">>] >>,
                          cmp |-> "LEQ", rhs |-> 1] >>
    /\ Len(builder.model.constraints) = 1
    /\ builder.model.constraints[1].upperbound = Dbl(1)
    /\ Len(builder.model.constraints[1].expr.linterms) = 2

-----------------------------------------------------------------------------
(* Files with bounds, general, binary and semicontinuous sections, in any order *)

\* the variables listed in a type section; <<>> for no section at all
VarLists == { <<>>, << <<"x">> >>, << <<"y">> >>, << <<"x">>, <<"y">> >> }

\* the items of the bounds sections written; <<>> for no section at all
BoundsChoices ==
    { <<>> }
    \cup { <<RangeItem(-1, v, MaxVal)>> : v \in Names }
    \cup { <<VarConstItem(<<"x">>, "GEQ", MaxVal), VarConstItem(<<"y">>, "LEQ", -1)>> }

\* the orders in which the four sections are written
Orders == { p \in [1..4 -> 1..4] : \A i, j \in 1..4 : i # j => p[i] # p[j] }

\* what the file says in its sections: 1 bounds, 2 general, 3 binary,
\* 4 semicontinuous
SectionsOf(w) == << w.bounds, w.gen, w.bin, w.semi >>

\* the sections that are not written stand last in the order, by number
OrdersAbsentLast(w) ==
    \A i, j \in 1..4 :
        (i < j /\ SectionsOf(w)[w.order[i]] = <<>>)
           => SectionsOf(w)[w.order[j]] = <<>> /\ w.order[i] < w.order[j]

TypeFiles ==
    { w \in [kind : {"types"}, bounds : BoundsChoices, gen : VarLists, bin : VarLists,
             semi : VarLists, order : Orders] : OrdersAbsentLast(w) }

\* kw followed by the names, or nothing for an empty list
RListSection(kw, names) ==
    IF names = <<>> THEN <<>>
    ELSE kw \o Flatten([i \in DOMAIN names |-> RWord(names[i])])

RTypeFile(w) ==
    LET secs == << IF w.bounds = <<>> THEN <<>>
                   ELSE W_bounds \o Flatten([k \in DOMAIN w.bounds |-> RItem(w.bounds[k])]),
                   RListSection(W_gen, w.gen),
                   RListSection(W_bin, w.bin),
                   RListSection(W_semi, w.semi) >>
    IN Flatten([i \in 1..4 |-> secs[w.order[i]]])

InitTypes ==
    /\ written \in TypeFiles
    /\ ReadStart(Spell(RTypeFile(written)))

SpecTypes == InitTypes /\ [][Next]_vars

\* the name v is written in the list names
Listed(names, v) == \E i \in DOMAIN names : names[i] = v

-----------------------------------------------------------------------------
(* C7 *)

\* C7: every variable listed in the semicontinuous section ends up with kind
\* semi-integer if it was general-integer when the section is processed (it
\* is listed in the general section and not in the binary section), and with
\* kind semicontinuous otherwise, whether or not the file has a general
\* section.
C7_SemiSectionSetsKind ==
    (pc = "done" /\ written.kind = "types")
       => \A v \in Names :
             Listed(written.semi, v)
                => /\ status = "ok"
                   /\ HasVariable(builder, v)
                   /\ TypeOf(v) = IF Listed(written.gen, v) /\ ~Listed(written.bin, v)
                                  THEN "SEMIINTEGER"
                                  ELSE "SEMICONTINUOUS"

-----------------------------------------------------------------------------
(* C9 *)

\* C9: every variable listed in the binary section ends the parse with bounds
\* exactly [0,1], whatever the bounds section assigned to it and wherever the
\* bounds and binary sections stand in the file; its kind is binary provided
\* it is not also listed in the semicontinuous section.
C9_BinaryForcesUnitBounds ==
    (pc = "done" /\ written.kind = "types")
       => \A v \in Names :
             Listed(written.bin, v)
                => /\ status = "ok"
                   /\ HasVariable(builder, v)
                   /\ BoundsOf(v) = <<Dbl(0), Dbl(1)>>
                   /\ (~Listed(written.semi, v) => TypeOf(v) = "BINARY")

\* "bin x y" written before "bounds -1 <= x <= 2" has been read: x is binary
\* with bounds [0,1]
C9_Witness ==
    /\ Returned
    /\ written.kind = "types"
    /\ written.bin = << <<"x">>, <<"y">> >>
    /\ written.bounds = <<RangeItem(-1, <<"x">>, MaxVal)>>
    /\ written.order[1] = 3
    /\ written.order[2] = 1
    /\ BoundsOf(<<"x">>) = <<Dbl(0), Dbl(1)>>
    /\ TypeOf(<<"x">>) = "BINARY"

-----------------------------------------------------------------------------
(* Files with a bracketed quadratic group in the objective or in a constraint *)

\* what is written for one term of a group: "[c] x ^ e" or "[c] x * y";
\* hascoef FALSE is a term written without a coefficient
HatAtoms == [op : {"HAT"}, hascoef : BOOLEAN, var : Names, exp : {1, 2}]
MulAtoms == [op : {"ASTERISK"}, hascoef : BOOLEAN, var : Names, var2 : Names]

\* the groups written: no term, one term, or one term and then "x ^ 2" or
\* "c x * y"
SecondAtoms ==
    { [op |-> "HAT", hascoef |-> FALSE, var |-> <<"x">>, exp |-> 2],
      [op |-> "ASTERISK", hascoef |-> TRUE, var |-> <<"x">>, var2 |-> <<"y">>] }
AtomLists ==
    { <<>> }
    \cup { <<a>> : a \in HatAtoms \cup MulAtoms }
    \cup { <<a, b>> : a \in HatAtoms \cup MulAtoms, b \in SecondAtoms }

\* the coefficient written in a group when one is written
GroupCoef == MaxVal + 1

\* a term as written; a later term follows a '+'
RAtom(a, first) ==
    (IF first THEN (IF a.hascoef THEN <<RawCons(Dbl(GroupCoef))>> ELSE <<>>)
     ELSE IF a.hascoef THEN <<RawSym("PLUS"), RawCons(Dbl(GroupCoef))>>
     ELSE <<RawSym("PLUS")>>)
    \o RWord(a.var)
    \o (IF a.op = "HAT" THEN <<RawSym("HAT"), RawCons(Dbl(a.exp))>>
        ELSE <<RawSym("ASTERISK")>> \o RWord(a.var2))

\* how a group is closed: "] / 2", "]", "] / 1", "] /", or not at all
Closers == {"slash2", "bare", "slash1", "slash", "open"}

RCloser(c) ==
    IF c = "slash2" THEN <<RawSym("BRKCL"), RawSym("SLASH"), RawCons(Dbl(2))>>
    ELSE IF c = "bare" THEN <<RawSym("BRKCL")>>
    ELSE IF c = "slash1" THEN <<RawSym("BRKCL"), RawSym("SLASH"), RawCons(Dbl(1))>>
    ELSE IF c = "slash" THEN <<RawSym("BRKCL"), RawSym("SLASH")>>
    ELSE <<>>

RGroup(al, c) ==
    <<RawSym("BRKOP")>> \o Flatten([i \in DOMAIN al |-> RAtom(al[i], i = 1)]) \o RCloser(c)

\* a group in the objective ("obj") or in a constraint "... <= 1" ("con");
\* lead: "2 x +" stands before the group; follow: what stands after the
\* section: nothing, "end", or for an objective the constraints "st y <= 1"
QuadFiles ==
    [kind : {"quad"}, sec : {"obj"}, lead : BOOLEAN, atoms : AtomLists,
     closer : Closers, follow : {"none", "end", "st"}]
    \cup [kind : {"quad"}, sec : {"con"}, lead : BOOLEAN, atoms : AtomLists,
          closer : Closers, follow : {"none", "end"}]

RQuadFile(w) ==
    (IF w.sec = "obj" THEN W_min ELSE W_st)
    \o (IF w.lead THEN <<RawCons(Dbl(2))>> \o RWord(<<"x">>) \o <<RawSym("PLUS")>> ELSE <<>>)
    \o RGroup(w.atoms, w.closer)
    \o (IF w.sec = "con" THEN RCmp("LEQ") \o RNum(1) ELSE <<>>)
    \o (IF w.follow = "end" THEN W_end
        ELSE IF w.follow = "st" THEN W_st \o RItem(VarConstItem(<<"y">>, "LEQ", 1))
        ELSE <<>>)

InitQuad ==
    /\ written \in QuadFiles
    /\ ReadStart(Spell(RQuadFile(written)))

SpecQuad == InitQuad /\ [][Next]_vars

\* every exponent written in the group is 2
WellFormed(al) == \A i \in DOMAIN al : al[i].op = "HAT" => al[i].exp = 2

\* the quadratic terms a well-formed group stands for
QuadTermsOf(al) ==
    [i \in DOMAIN al |->
        [coef |-> Dbl(IF al[i].hascoef THEN GroupCoef ELSE 1),
         var1 |-> al[i].var,
         var2 |-> IF al[i].op = "HAT" THEN al[i].var ELSE al[i].var2]]

-----------------------------------------------------------------------------
(* C10 *)

\* C10: a bracketed quadratic group in the objective is accepted only when
\* its closing ']' is immediately followed by '/' and the constant 2: a ']'
\* followed by anything else, or by nothing, is a fatal error, and a
\* well-formed group closed by "] / 2" is read into the
\* quadratic terms written, "[ x ^ 2 ] / 2" into the one term (1, x, x).  In
\* a constraint a well-formed group closed by ']' alone is read into the terms
\* written, and a "/ 2" after the ']' makes the parse fail.
C10_QuadraticGroupClosing ==
    (pc = "done" /\ written.kind = "quad")
       => LET al == written.atoms
              c == written.closer
          IN IF written.sec = "obj"
             THEN /\ (c \in {"bare", "slash1", "slash"} => status = "error")
                  /\ (c = "slash2" /\ WellFormed(al)
                        => /\ status = "ok"
                           /\ builder.model.objective.quadterms = QuadTermsOf(al))
             ELSE /\ (c = "bare" /\ WellFormed(al)
                        => /\ status = "ok"
                           /\ Len(builder.model.constraints) = 1
                           /\ builder.model.constraints[1].expr.quadterms = QuadTermsOf(al))
                  /\ (c = "slash2" => status = "error")

\* "min [ x ^ 2 ] / 2" has been read into the single term (1, x, x)
C10_Witness ==
    /\ Returned
    /\ written.kind = "quad"
    /\ written.sec = "obj"
    /\ ~written.lead
    /\ written.atoms = << [op |-> "HAT", hascoef |-> FALSE, var |-> <<"x">>, exp |-> 2] >>
    /\ written.closer = "slash2"
    /\ builder.model.objective.quadterms
          = << [coef |-> Dbl(1), var1 |-> <<"x">>, var2 |-> <<"x">>] >>

-----------------------------------------------------------------------------
(* Files as sequences of characters, read from the first character on *)

\* the largest number of characters in a file
MaxFileLen == 4

\* the characters of the files: NUL, a letter, a digit, a blank, the
\* backslash that starts a line comment, the newline, and '/' and '*'
LexChars == {"NUL", "x", "2", " ", "\\", "NL", "/", "*"}

LexFiles == UNION { [1..n -> LexChars] : n \in 0..MaxFileLen }

InitLex ==
    /\ LexStart
    /\ file \in LexFiles
    /\ written = [kind |-> "text", chars |-> file]

SpecLex == InitLex /\ [][NextLex]_vars

-----------------------------------------------------------------------------
(* C1 *)

\* C1: for every finite input, over any character alphabet, read() ends and
\* its outcome is a Model ("ok") or a fatal error ("error"): the retry loops
\* around the lexer always end, and the run does not end in any third way.
C1_ReadEndsWithModelOrError ==
    pc = "done" => status \in {"ok", "error"}

-----------------------------------------------------------------------------
(* Files as sequences of sections, some of them empty *)

\* the largest number of sections written in a file
MaxSections == 3

\* the raw tokens the lexer delivers for a text without NUL characters
RECURSIVE LexFrom(_, _, _, _, _)
LexFrom(f, eof, line, pos, acc) ==
    LET r == readnexttoken(f, eof, line, pos) IN
    IF r.ret = "true" /\ r.token.type = "FLEND" THEN acc
    ELSE IF r.ret \notin {"true", "false"} THEN acc
    ELSE LexFrom(r.file, r.fileeof, r.linebuffer, r.linebufferpos,
                 IF r.ret = "true" THEN Append(acc, r.token) ELSE acc)

LexAll(chars) == LexFrom(chars, FALSE, <<>>, 0, <<>>)

\* the spellings of section keywords written in these files
Spellings ==
    { <<"m","i","n">>, <<"m","i","n","i","m","i","z","e">>,
      <<"m","a","x">>,
      <<"s","t">>, <<"s","u","b","j","e","c","t"," ","t","o">>,
      <<"b","o","u","n","d","s">>, <<"b","o","u","n","d">>,
      <<"b","i","n">>,
      <<"g","e","n">>, <<"i","n","t">>,
      <<"s","e","m","i">>,
      <<"s","o","s">>,
      <<"e","n","d">> }

\* what is written for one section: the spelling of its keyword, and whether
\* anything follows the keyword
WrittenSections == [word : Spellings, empty : BOOLEAN]

KeywordOf(sec) == parsesectionkeyword(sec.word)

\* files of up to MaxSections sections; in a file of three sections or more
\* the last repeats the keyword of the first
SectionLists ==
    UNION { { l \in [1..n -> WrittenSections] :
                n >= 3 => KeywordOf(l[1]) = KeywordOf(l[n]) } : n \in 1..MaxSections }

SectionFiles == [kind : {"sections"}, secs : SectionLists]

\* a well-formed content for the section of keyword kw
RBody(kw) ==
    IF kw = "CON" \/ kw = "BOUNDS" THEN RItem(VarConstItem(<<"x">>, "LEQ", 1))
    ELSE IF kw = "SOS"
    THEN RSet([name |-> <<"s","a">>, type |-> 1,
               entries |-> <<[var |-> <<"x">>, weight |-> 1]>>])
    ELSE RWord(<<"x">>)

RSection(sec) == LexAll(sec.word) \o (IF sec.empty THEN <<>> ELSE RBody(KeywordOf(sec)))

RSectionFile(w) == Flatten([k \in DOMAIN w.secs |-> RSection(w.secs[k])])

Init ==
    /\ written \in SectionFiles
    /\ ReadStart(Spell(RSectionFile(written)))

Spec == Init /\ [][Next]_vars

\* the same section keyword is written twice
SameKeywordTwice(secs) ==
    \E i, j \in DOMAIN secs : i < j /\ KeywordOf(secs[i]) = KeywordOf(secs[j])

-----------------------------------------------------------------------------
(* C4 *)

\* C4: a file in which the same section keyword, in any of its spellings,
\* occurs twice always fails with a fatal error, whatever the content of
\* either occurrence, also when one occurrence is an empty section.
C4_DuplicateSectionFails ==
    (pc = "done" /\ written.kind = "sections" /\ SameKeywordTwice(written.secs))
       => status = "error"

-----------------------------------------------------------------------------
(* Files with one objective or constraints section of arbitrary tokens *)

\* the largest number of tokens written in the section
MaxExprLen == 4

\* what is written for one token: a variable, the constant 3, '*' or "<="
ExprAtoms == {"x", "y", "3", "*", "<="}

ExprFiles ==
    [kind : {"expr"}, sec : {"obj", "con"},
     atoms : UNION { [1..n -> ExprAtoms] : n \in 0..MaxExprLen }]

RExprAtom(a) ==
    IF a = "3" THEN <<RawCons(Dbl(3))>>
    ELSE IF a = "*" THEN <<RawSym("ASTERISK")>>
    ELSE IF a = "<=" THEN RCmp("LEQ")
    ELSE RWord(<<a>>)

RExprFile(w) ==
    (IF w.sec = "obj" THEN W_min ELSE W_st)
    \o Flatten([k \in DOMAIN w.atoms |-> RExprAtom(w.atoms[k])])

InitExpr ==
    /\ written \in ExprFiles
    /\ ReadStart(Spell(RExprFile(written)))

SpecExpr == InitExpr /\ [][Next]_vars

\* the number of atoms of the sequence that are in the set as
RECURSIVE CountAtoms(_, _)
CountAtoms(atoms, as) ==
    IF atoms = <<>> THEN 0
    ELSE (IF Head(atoms) \in as THEN 1 ELSE 0) + CountAtoms(Tail(atoms), as)

\* the number of linear terms of the constraints cons
RECURSIVE CountLinTerms(_)
CountLinTerms(cons) ==
    IF cons = <<>> THEN 0
    ELSE Len(Head(cons).expr.linterms) + CountLinTerms(Tail(cons))

\* "x 3 * y"
TwoTermsJoinedWrongly == <<"x", "3", "*", "y">>

-----------------------------------------------------------------------------
(* C11 *)

\* C11: no partial expression is accepted.  A file is read only if the
\* cursor of its objective section and of its constraints section reached
\* the end of the section; an objective that is read holds no token the
\* expression parser stops at ('*', "<=") and every variable written is a
\* term of the objective; constraints that are read end with a comparison
\* and a constant, there is one constraint for each comparison written and
\* every variable written is a term of a constraint.  "x 3 * y" fails in both
\* sections.
C11_NoPartialExpression ==
    (pc = "done" /\ written.kind = "expr")
       => /\ (written.atoms = TwoTermsJoinedWrongly => status = "error")
          /\ status \in {"ok", "error"}
          /\ status = "ok"
                => LET atoms == written.atoms
                       n == Len(atoms)
                   IN /\ \A k \in DOMAIN sectiontokens \cap {"OBJMIN", "CON"} :
                            sectiontokens[k].first = sectiontokens[k].second
                      /\ CountAtoms(atoms, {"*"}) = 0
                      /\ IF written.sec = "obj"
                         THEN /\ CountAtoms(atoms, {"<="}) = 0
                              /\ Len(builder.model.objective.linterms)
                                    = CountAtoms(atoms, {"x", "y"})
                         ELSE /\ n > 0 => (n >= 2 /\ atoms[n - 1] = "<=" /\ atoms[n] = "3")
                              /\ Len(builder.model.constraints) = CountAtoms(atoms, {"<="})
                              /\ CountLinTerms(builder.model.constraints)
                                    = CountAtoms(atoms, {"x", "y"})

\* "min x 3 * y" has failed in processobjsec with x a term of the objective
C11_Witness ==
    /\ Failed
    /\ written.kind = "expr"
    /\ written.sec = "obj"
    /\ written.atoms = TwoTermsJoinedWrongly
    /\ Len(builder.model.objective.linterms) = 1

-----------------------------------------------------------------------------
(* Files whose sections refer to the same variables, in any order *)

NoSection == [form |-> "none", var |-> <<>>]

\* "st v <= 1"
ConChoices == {NoSection} \cup [form : {"lin"}, var : Names]

RConChoice(c) ==
    IF c.form = "none" THEN <<>> ELSE W_st \o RItem(VarConstItem(c.var, "LEQ", 1))

\* the kinds of sections written: minimize, maximize, constraints, bounds,
\* general, binary, semicontinuous, special ordered sets
XrefKinds == {"min", "max", "st", "bounds", "gen", "bin", "semi", "sos"}

\* the names a section refers to, in the order written: one name, or y and
\* then x
XrefVarLists == { <<v>> : v \in Names } \cup { << <<"y">>, <<"x">> >> }

\* a section that refers to its names one after the other ("min 1 y + 1 x",
\* "st 1 y + 1 x <= 1", "bounds y <= 2 x <= 2", "gen y x", "bin y x",
\* "semi y x", "sos sa: S1:: y:1 x:2"), or the objective "min [ x ^ 2 ] / 2"
XrefSectionChoices ==
    [sec : XrefKinds, form : {"names"}, vars : XrefVarLists]
    \cup [sec : {"min"}, form : {"sq"}, vars : { << <<"x">> >> }]

\* the largest number of sections written in such a file
MaxXrefSections == 3

\* no two sections of the file are of the same kind
DistinctKinds(secs) == \A i, j \in DOMAIN secs : i # j => secs[i].sec # secs[j].sec

\* the files: their sections in the order written, every arrangement of
\* up to MaxXrefSections sections of different kinds
XrefFiles ==
    [kind : {"xref"},
     secs : { l \in UNION { [1..n -> XrefSectionChoices] : n \in 0..MaxXrefSections } :
                  DistinctKinds(l) }]

\* the terms "1 v" of the names
UnitTerms(names) == [i \in DOMAIN names |-> [coef |-> 1, var |-> names[i]]]

RXrefSection(c) ==
    IF c.sec \in {"min", "max"}
    THEN (IF c.sec = "min" THEN W_min ELSE W_max)
         \o (IF c.form = "sq"
             THEN <<RawSym("BRKOP")>> \o RWord(c.vars[1])
                  \o <<RawSym("HAT"), RawCons(Dbl(2)), RawSym("BRKCL"),
                       RawSym("SLASH"), RawCons(Dbl(2))>>
             ELSE Flatten([i \in DOMAIN c.vars |-> RTerm(UnitTerms(c.vars)[i], i = 1)]))
    ELSE IF c.sec = "st"
    THEN W_st \o RCon([terms |-> UnitTerms(c.vars), cmp |-> "LEQ", rhs |-> 1])
    ELSE IF c.sec = "bounds"
    THEN W_bounds \o Flatten([i \in DOMAIN c.vars |->
                                 RItem(VarConstItem(c.vars[i], "LEQ", 2))])
    ELSE IF c.sec = "gen" THEN RListSection(W_gen, c.vars)
    ELSE IF c.sec = "bin" THEN RListSection(W_bin, c.vars)
    ELSE IF c.sec = "semi" THEN RListSection(W_semi, c.vars)
    ELSE W_sos \o RSet([name |-> <<"s","a">>, type |-> 1,
                        entries |-> [i \in DOMAIN c.vars |->
                                        [var |-> c.vars[i], weight |-> i]]])

RXrefFile(w) == Flatten([i \in DOMAIN w.secs |-> RXrefSection(w.secs[i])])

InitXref ==
    /\ written \in XrefFiles
    /\ ReadStart(Spell(RXrefFile(written)))

SpecXref == InitXref /\ [][Next]_vars

\* the file has a section of the kind k
HasKind(w, k) == \E i \in DOMAIN w.secs : w.secs[i].sec = k

\* the names of the section of the kind k, none if the file has no such
\* section
NamesIn(w, k) ==
    IF HasKind(w, k) THEN w.secs[CHOOSE i \in DOMAIN w.secs : w.secs[i].sec = k].vars
    ELSE <<>>

\* the section of the kind k is written and v is one of its names
Named(w, k, v) == \E i \in DOMAIN NamesIn(w, k) : NamesIn(w, k)[i] = v

\* read() processes the section of the kind k if the file has one
\* (processsections, reader.cpp 728-738), but the maximize section only in
\* a file without a minimize section (reader.cpp 473) and the
\* semicontinuous section only in a file with a general section
\* (reader.cpp 662)
IsProcessed(w, k) ==
    /\ HasKind(w, k)
    /\ k = "max" => ~HasKind(w, "min")
    /\ k = "semi" => HasKind(w, "gen")

\* the kinds in the order in which read() processes the sections
ProcessingOrder == <<"min", "max", "st", "bounds", "gen", "bin", "semi", "sos">>

\* the names the sections refer to, in the order the file has them
FileRefs(w) == Flatten([i \in DOMAIN w.secs |-> w.secs[i].vars])

\* the names the sections that read() processes refer to, in the order in
\* which it processes them
ProcessingRefs(w) ==
    Flatten([i \in DOMAIN ProcessingOrder |->
                IF IsProcessed(w, ProcessingOrder[i]) THEN NamesIn(w, ProcessingOrder[i])
                ELSE <<>>])

\* the position of the first v in the sequence, 0 if there is none
FirstPos(seq, v) ==
    IF \E i \in DOMAIN seq : seq[i] = v
    THEN CHOOSE i \in DOMAIN seq : seq[i] = v /\ \A j \in 1..(i - 1) : seq[j] # v
    ELSE 0

\* the names of the sequence, each one where it stands first
RECURSIVE FirstRefs(_)
FirstRefs(seq) ==
    IF seq = <<>> THEN <<>>
    ELSE IF FirstPos(seq, seq[Len(seq)]) < Len(seq)
    THEN FirstRefs(SubSeq(seq, 1, Len(seq) - 1))
    ELSE Append(FirstRefs(SubSeq(seq, 1, Len(seq) - 1)), seq[Len(seq)])

\* the names of the model's variables, in list order
VariableNames == [i \in DOMAIN builder.model.variables |-> builder.model.variables[i].name]

\* the position of the variable called v in the model's variable list
VarIndex(v) == FirstPos(VariableNames, v)

\* u is referred to before v in the sequence of names
RefersFirst(seq, u, v) ==
    FirstPos(seq, u) > 0 /\ FirstPos(seq, v) > 0 /\ FirstPos(seq, u) < FirstPos(seq, v)

-----------------------------------------------------------------------------
(* C12 *)

\* C12 as stated: the variable list is ordered by the position of each
\* variable's first reference in the file: if the first occurrence of u in the
\* file precedes the first occurrence of v, then u precedes v in the variable
\* list, for every arrangement of the sections.
C12_OrderedByFilePosition ==
    (pc = "done" /\ written.kind = "xref")
       => /\ status = "ok"
          /\ \A u, v \in Names :
                RefersFirst(FileRefs(written), u, v) => VarIndex(u) < VarIndex(v)

\* C12 amended: the variable list is the sequence of the names in the order
\* in which read() first looks them up, wherever the sections stand in the
\* file: read() processes the objective (the minimize section; the maximize
\* section only if the file has no minimize section), the constraints, the
\* bounds, the general, the binary, the semicontinuous (only if the file has
\* a general section) and the special-ordered-set section in this order, and
\* a section from its first token to its last.  If the first reference to u
\* processed precedes the first reference to v processed, u precedes v in
\* the list; a name written only in sections that are not processed is not
\* in the list.
C12_OrderedByProcessingOrder ==
    (pc = "done" /\ written.kind = "xref")
       => /\ status = "ok"
          /\ VariableNames = FirstRefs(ProcessingRefs(written))
          /\ \A u, v \in Names :
                RefersFirst(ProcessingRefs(written), u, v)
                   => (VarIndex(u) > 0 /\ VarIndex(u) < VarIndex(v))
          /\ \A v \in Names :
                FirstPos(ProcessingRefs(written), v) = 0 => VarIndex(v) = 0

\* "semi x", "gen y x", "sos sa: S1:: y:1" has been read: the general
\* section is processed before the semicontinuous one and names y first, so
\* that y is the first variable although x is written first
C12_Witness ==
    /\ Returned
    /\ written.kind = "xref"
    /\ written.secs = << [sec |-> "semi", form |-> "names", vars |-> << <<"x">> >>],
                         [sec |-> "gen", form |-> "names", vars |-> << <<"y">>, <<"x">> >>],
                         [sec |-> "sos", form |-> "names", vars |-> << <<"y">> >>] >>
    /\ VarIndex(<<"y">>) = 1
    /\ VarIndex(<<"x">>) = 2

-----------------------------------------------------------------------------
(* Files with one keyword written in every mix of letter cases *)

toupper(c) ==
    IF \E i \in DOMAIN LowerChars : LowerChars[i] = c
    THEN UpperChars[CHOOSE i \in DOMAIN LowerChars : LowerChars[i] = c]
    ELSE c

\* the lower-case spellings written: one or two of each keyword class
KeywordWords ==
    { <<"f","r","e","e">>, <<"i","n","f">>, <<"m","i","n">>, <<"m","a","x">>,
      <<"s","t">>, <<"b","i","n">>, <<"g","e","n">>, <<"s","o","s">>,
      <<"e","n","d">> }

\* word with the letters at the positions of ups in upper case
WithUpper(word, ups) == [i \in DOMAIN word |-> IF i \in ups THEN toupper(word[i]) ELSE word[i]]

CaseVariants(word) == { WithUpper(word, ups) : ups \in SUBSET (DOMAIN word) }

\* where the word stands in the bounds section: after a variable ("x W"),
\* after a comparison ("x <= W"), or first on its line ("W")
KwPlaces == {"aftervar", "aftercomp", "first"}

KwFiles == [kind : {"kw"}, word : UNION { CaseVariants(k) : k \in KeywordWords },
            place : KwPlaces]

\* the characters of the file
KwText(w) ==
    <<"b","o","u","n","d","s","NL"," ">>
    \o (IF w.place = "aftervar" THEN <<"x"," ">>
        ELSE IF w.place = "aftercomp" THEN <<"x"," ","<","="," ">>
        ELSE <<>>)
    \o w.word \o <<"NL">>

InitKw ==
    /\ written \in KwFiles
    /\ ReadStart(KwText(written))

SpecKw == InitKw /\ [][Next]_vars

\* the file with the keyword in lower case
LowerCased(w) == [w EXCEPT !.word = ToLowerStr(w.word)]

-----------------------------------------------------------------------------
(* C13 *)

\* C13: keyword recognition is case-insensitive for every keyword class, the
\* free marker and infinity included: a file with a keyword written in any
\* mix of cases is classified into the semantic tokens of the file with the
\* lower-case spelling; "FREE" after a variable in the bounds section is the
\* free marker and not a variable reference.  (Every file of this family is
\* classified without error, so each one passes through splittokens.)
C13_KeywordsCaseInsensitive ==
    (pc = "splittokens" /\ written.kind = "kw")
       => /\ processedtokens = processtokens(LexAll(KwText(LowerCased(written)))).tokens
          /\ (ToLowerStr(written.word) = <<"f","r","e","e">> /\ written.place = "aftervar")
                => processedtokens = <<TokSecId("BOUNDS"), TokName("VARID", <<"x">>),
                                       TokPlain("FREE")>>

-----------------------------------------------------------------------------
(* Files with one or two objective sections *)

\* what is written for one objective section: its keyword and its only term,
\* or nothing after the keyword
ObjSections == [sense : {"MIN", "MAX"}, has : BOOLEAN, var : Names]

ObjSectionLists ==
    UNION { { l \in [1..n -> ObjSections] : \A i \in 1..n : ~l[i].has => l[i].var = <<"x">> }
            : n \in 1..2 }

\* the objective sections, then possibly the constraint "st v <= 1"
ObjFiles == [kind : {"obj"}, secs : ObjSectionLists, con : ConChoices]

RObjSection(sec) ==
    (IF sec.sense = "MIN" THEN W_min ELSE W_max)
    \o (IF sec.has THEN RWord(sec.var) ELSE <<>>)

RObjFile(w) ==
    Flatten([k \in DOMAIN w.secs |-> RObjSection(w.secs[k])]) \o RConChoice(w.con)

InitObj ==
    /\ written \in ObjFiles
    /\ ReadStart(Spell(RObjFile(written)))

SpecObj == InitObj /\ [][Next]_vars

\* the file has a minimize section with a term and a maximize section with a term
BothObjectives(w) ==
    /\ \E i \in DOMAIN w.secs : w.secs[i].sense = "MIN" /\ w.secs[i].has
    /\ \E i \in DOMAIN w.secs : w.secs[i].sense = "MAX" /\ w.secs[i].has

-----------------------------------------------------------------------------
(* C14 *)

\* C14: a file with both a non-empty minimize section and a non-empty
\* maximize section is rejected with an error; it is never accepted with one
\* of the two objectives ignored.
C14_BothObjectivesRejected ==
    (pc = "done" /\ written.kind = "obj" /\ BothObjectives(written))
       => status = "error"

-----------------------------------------------------------------------------
(* C15 *)

\* the number of variables of the model called v
CountVariables(v) == Cardinality({ i \in DOMAIN VariableNames : VariableNames[i] = v })

\* the names the terms and entries of the model refer to
ModelRefs ==
    LET m == builder.model
        ExprRefs(e) == { e.linterms[i].var : i \in DOMAIN e.linterms }
                       \cup { e.quadterms[i].var1 : i \in DOMAIN e.quadterms }
                       \cup { e.quadterms[i].var2 : i \in DOMAIN e.quadterms }
    IN ExprRefs(m.objective)
       \cup UNION { ExprRefs(m.constraints[i].expr) : i \in DOMAIN m.constraints }
       \cup UNION { { m.soss[i].entries[j].var : j \in DOMAIN m.soss[i].entries }
                    : i \in DOMAIN m.soss }

\* the names the objective, the constraints and the set entries that read()
\* processes refer to
ExpressionRefs(w) ==
    { v \in Names : \E k \in {"min", "max", "st", "sos"} : IsProcessed(w, k) /\ Named(w, k, v) }

\* the names of the file that read() looks up
ProcessedRefs(w) == { v \in Names : \E k \in XrefKinds : IsProcessed(w, k) /\ Named(w, k, v) }

\* the bounds the file declares for v: [0, 1] in the binary section, which
\* is processed after the bounds section, or "v <= 2"
DeclaredBounds(w, v) ==
    IF Named(w, "bin", v) THEN <<Dbl(0), Dbl(1)>>
    ELSE IF Named(w, "bounds", v) THEN <<Dbl(0), Dbl(2)>>
    ELSE <<Dbl(0), Infinity>>

\* the type the file declares for v: the general, the binary and the
\* semicontinuous section are processed in this order
DeclaredType(w, v) ==
    IF IsProcessed(w, "semi") /\ Named(w, "semi", v)
    THEN (IF Named(w, "gen", v) /\ ~Named(w, "bin", v) THEN "SEMIINTEGER"
          ELSE "SEMICONTINUOUS")
    ELSE IF Named(w, "bin", v) THEN "BINARY"
    ELSE IF Named(w, "gen", v) THEN "GENERAL"
    ELSE "CONTINUOUS"

-----------------------------------------------------------------------------
(* C16 *)

\* the names written in a bounds, general, binary or semicontinuous section
DeclaredNames(w) ==
    { v \in Names : \E k \in {"bounds", "gen", "bin", "semi"} : Named(w, k, v) }

-----------------------------------------------------------------------------
(* Files with a constraints section, whole or cut short *)

\* a constraints section whose last constraint is written without its
\* right-hand side ("connorhs") or without comparison and right-hand side
\* ("connocmp")
CutConFiles ==
    [kind : {"connorhs", "connocmp"}, framed : {FALSE},
     cons : { <<d>> : d \in { c \in WrittenCons : c.rhs = 1 } }
            \cup { <<d0, d>> : d0 \in FirstCons,
                               d \in { c \in WrittenCons : c.rhs = 1 /\ Len(c.terms) = 1 } }]

\* the constraint without what follows its expression, or without its
\* right-hand side
RCutCon(d, kind) ==
    Flatten([i \in DOMAIN d.terms |-> RTerm(d.terms[i], i = 1)])
    \o (IF kind = "connorhs" THEN RCmp(d.cmp) ELSE <<>>)

RCutConFile(w) ==
    W_st \o Flatten([k \in DOMAIN w.cons |->
                        IF k = Len(w.cons) THEN RCutCon(w.cons[k], w.kind)
                        ELSE RCon(w.cons[k])])

InitConCut ==
    /\ written \in ConFiles \cup CutConFiles
    /\ ReadStart(Spell(IF written.kind = "con" THEN RConFile(written) ELSE RCutConFile(written)))

SpecConCut == InitConCut /\ [][Next]_vars

\* the Constraint a written constraint with <=, = or >= stands for
ConstraintOf(d) ==
    [LeqConstraintOf(d) EXCEPT
        !.lowerbound = IF d.cmp \in {"GEQ", "EQ"} THEN Dbl(d.rhs) ELSE Neg(Infinity),
        !.upperbound = IF d.cmp \in {"LEQ", "EQ"} THEN Dbl(d.rhs) ELSE Infinity]

-----------------------------------------------------------------------------
(* C17 *)

\* C17: in the constraints section every expression must be followed by a
\* comparison and a numeric right-hand side: a section whose last constraint
\* lacks them fails, and so does a section with a strict comparison ('<' or
\* '>'); otherwise the section is read and the constraints are appended in
\* file order, '<=' setting only the upper bound, '>=' only the lower bound
\* and '=' both bounds to the right-hand side.
C17_ComparisonAndRightHandSide ==
    (pc = "done" /\ written.kind \in {"con", "connorhs", "connocmp"})
       => IF \/ written.kind # "con"
             \/ \E k \in DOMAIN written.cons : written.cons[k].cmp \in {"L", "G"}
          THEN status = "error"
          ELSE /\ status = "ok"
               /\ builder.model.constraints
                     = [k \in DOMAIN written.cons |-> ConstraintOf(written.cons[k])]

\* "- y >= -1" and then a constraint with "= 1" have been read: the first has
\* the lower bound -1 only, the second both bounds 1
C17_Witness ==
    /\ Returned
    /\ written.kind = "con"
    /\ Len(written.cons) = 2
    /\ written.cons[1].cmp = "GEQ"
    /\ written.cons[2].cmp = "EQ"
    /\ written.cons[2].rhs = 1
    /\ Len(builder.model.constraints) = 2
    /\ builder.model.constraints[1].lowerbound = Dbl(-1)
    /\ builder.model.constraints[1].upperbound = Infinity
    /\ builder.model.constraints[2].lowerbound = Dbl(1)
    /\ builder.model.constraints[2].upperbound = Dbl(1)

-----------------------------------------------------------------------------
(* C18 *)

\* C18: in the special-ordered-set section a label with no weight after it,
\* here as the last token of the section, makes the parse fail; it is never
\* dropped silently.
C18_LabelWithoutWeightFails ==
    (pc = "done" /\ written.kind = "sos" /\ written.trailing # <<>>)
       => status = "error"

-----------------------------------------------------------------------------
(* Files with a block comment *)

MaxCommentLen == 3

\* the raw tokens written inside a comment: the word a, '*' and '/'
CommentAtoms == {"a", "*", "/"}

RCommentAtom(a) ==
    IF a = "*" THEN RawSym("ASTERISK")
    ELSE IF a = "/" THEN RawSym("SLASH")
    ELSE RawStr(<<a>>)

\* the insides of a comment: no '*' '/' pair, so that the pair written after
\* them is the first one that follows the opening
CommentInsides ==
    { c \in UNION { [1..n -> CommentAtoms] : n \in 0..MaxCommentLen } :
        \A i \in 1..(Len(c) - 1) : ~(c[i] = "*" /\ c[i + 1] = "/") }

\* what stands before the comment (nothing, or "min") and after it (nothing,
\* a variable, or a constraints section)
CommentFiles ==
    [kind : {"comment"}, min : BOOLEAN, inside : CommentInsides,
     after : {"none", "var", "con"}]

RBeforeComment(w) == IF w.min THEN W_min ELSE <<>>

RAfterComment(w) ==
    IF w.after = "none" THEN <<>>
    ELSE IF w.after = "var" THEN RWord(<<"x">>)
    ELSE W_st \o RItem(VarConstItem(<<"x">>, "LEQ", 1))

RCommentFile(w) ==
    RBeforeComment(w)
    \o <<RawSym("SLASH"), RawSym("ASTERISK")>>
    \o [i \in DOMAIN w.inside |-> RCommentAtom(w.inside[i])]
    \o <<RawSym("ASTERISK"), RawSym("SLASH")>>
    \o RAfterComment(w)

InitComment ==
    /\ written \in CommentFiles
    /\ ReadStart(Spell(RCommentFile(written)))

SpecComment == InitComment /\ [][Next]_vars

-----------------------------------------------------------------------------
(* C19 *)

\* C19: for a block comment opened by '/' '*' and closed by the first
\* following '*' '/', whatever the number of raw tokens between them, no raw
\* token of the comment produces a semantic token and classification resumes
\* with the raw token right after the closing '/': the semantic tokens of the
\* file are those of the file without the comment.
C19_CommentSkipped ==
    (pc = "splittokens" /\ written.kind = "comment")
       => processedtokens
             = processtokens(RBeforeComment(written) \o RAfterComment(written)).tokens

-----------------------------------------------------------------------------
(* C20 *)

\* C20: the expression parser inspects and advances its cursor strictly
\* before the end of the section range only, so that read() never ends with
\* behaviour that is undefined; when the range ends inside an open '[' group
\* of the objective the parse fails with an error, without a position at or
\* beyond the range end being inspected.
C20_CursorWithinRange ==
    (pc = "done" /\ written.kind = "quad")
       => /\ status # "undefined"
          /\ (written.sec = "obj" /\ written.closer = "open") => status = "error"

-----------------------------------------------------------------------------
(* Files of letters and punctuation, read from the first character *)

\* the largest number of characters in such a file
MaxRunFileLen == 3

\* a letter, the brackets, the semicolon, and '/' and '*'
RunChars == {"x", "[", "]", ";", "/", "*"}

RunFiles == UNION { [1..n -> RunChars] : n \in 0..MaxRunFileLen }

InitRun ==
    /\ LexStart
    /\ file \in RunFiles
    /\ written = [kind |-> "run", chars |-> file]

SpecRun == InitRun /\ [][NextLex]_vars

\* whitespace and the special characters: blank, tab, '\', ';' and the
\* single-character punctuation marks
SpecialChars ==
    {" ", "TAB", "\\", ";", "[", "]", "<", ">", "=", ":", "+", "-", "^", "/", "*"}

-----------------------------------------------------------------------------
(* C21 *)

\* C21: a string-run token produced by the lexer stops before the next
\* whitespace or special character: no string-run token contains a blank, a
\* tab, '\', ';' or one of the punctuation marks [ ] < > = : + - ^ / *.
C21_StringRunHasNoSpecialChar ==
    written.kind = "run"
       => \A i \in DOMAIN lexout :
             lexout[i].type = "STR"
                => \A j \in DOMAIN lexout[i].svalue : lexout[i].svalue[j] \notin SpecialChars

-----------------------------------------------------------------------------
(* C22 *)

\* the section keyword at position i has content: a token that is not a
\* section keyword follows it
HasContent(toks, i) ==
    /\ toks[i].type = "SECID"
    /\ i < Len(toks)
    /\ toks[i + 1].type # "SECID"

\* C22: after splittokens every recorded range is non-empty, begins right
\* after its section keyword, ends at the next section keyword or at the end
\* of the stream, holds no section keyword, and the ranges of different
\* sections do not overlap; a keyword followed at once by another keyword or
\* by the end of the stream leaves no entry, so that a section is in the map
\* exactly when one of its keywords has content.
C22_SectionRanges ==
    (pc = "processnonesec" /\ written.kind = "sections")
       => LET toks == processedtokens
              st == sectiontokens
          IN /\ \A k \in DOMAIN st :
                   /\ 2 <= st[k].first
                   /\ st[k].first < st[k].second
                   /\ st[k].second <= Len(toks) + 1
                   /\ toks[st[k].first - 1] = TokSecId(k)
                   /\ st[k].second = Len(toks) + 1 \/ toks[st[k].second].type = "SECID"
                   /\ \A i \in st[k].first..(st[k].second - 1) : toks[i].type # "SECID"
             /\ \A k1, k2 \in DOMAIN st :
                   k1 # k2 => (st[k1].second <= st[k2].first \/ st[k2].second <= st[k1].first)
             /\ \A i \in DOMAIN toks :
                   toks[i].type = "SECID"
                      => (HasContent(toks, i)
                             <=> (toks[i].keyword \in DOMAIN st /\ st[toks[i].keyword].first = i + 1))

\* an empty "min", then constraints, then "min x" have been split: the map
\* has the constraints and the second objective, and two ranges
C22_Witness ==
    /\ pc = "processnonesec"
    /\ written.kind = "sections"
    /\ Len(written.secs) = 3
    /\ written.secs[1].empty
    /\ ~written.secs[2].empty
    /\ ~written.secs[3].empty
    /\ KeywordOf(written.secs[2]) = "CON"
    /\ DOMAIN sectiontokens = {"CON", "OBJMIN"}
    /\ sectiontokens["OBJMIN"].second = Len(processedtokens) + 1
    /\ sectiontokens["CON"].second < sectiontokens["OBJMIN"].first

-----------------------------------------------------------------------------
(* C23 *)

\* the place of section k (1 bounds, 2 general, 3 binary, 4 semicontinuous)
\* in the file
PlaceOf(w, k) == CHOOSE i \in 1..4 : w.order[i] = k

\* C23: a variable listed in both the general and the semicontinuous section,
\* and not in the binary section, ends the parse with kind semi-integer,
\* whichever of the two sections stands first in the file.
C23_GeneralAndSemiIsSemiInteger ==
    (pc = "done" /\ written.kind = "types")
       => \A v \in Names :
             (Listed(written.gen, v) /\ Listed(written.semi, v) /\ ~Listed(written.bin, v))
                => /\ status = "ok"
                   /\ HasVariable(builder, v)
                   /\ TypeOf(v) = "SEMIINTEGER"

\* "semi x" written before "gen x y" has been read, and x is semi-integer
C23_Witness ==
    /\ Returned
    /\ written.kind = "types"
    /\ written.semi = << <<"x">> >>
    /\ written.gen = << <<"x">>, <<"y">> >>
    /\ written.bin = <<>>
    /\ PlaceOf(written, 4) < PlaceOf(written, 2)
    /\ TypeOf(<<"x">>) = "SEMIINTEGER"
    /\ TypeOf(<<"y">>) = "GENERAL"

-----------------------------------------------------------------------------
(* Files with a bounds section, whole or cut short *)

\* a bounds section of one bound written without its last token: "1 <=",
\* "x <=", "1 <= x <="
CutBoundsFiles ==
    [kind : {"boundscut"}, framed : BOOLEAN,
     items : { <<i>> : i \in { j \in DoubleItems \cup ConstVarItems \cup VarConstItems :
                                 /\ j.form = "double" => (j.lo = 1 /\ j.hi = 1)
                                 /\ j.form # "double" => j.val = 1 } }]

RCutBoundsFile(w) ==
    LET r == RItem(w.items[1])
    IN RFramed(w.framed, W_bounds \o SubSeq(r, 1, Len(r) - 1))

InitBoundsCut ==
    /\ written \in BoundsFiles \cup CutBoundsFiles
    /\ ReadStart(Spell(IF written.kind = "bounds" THEN RBoundsFile(written)
                   ELSE RCutBoundsFile(written)))

SpecBoundsCut == InitBoundsCut /\ [][Next]_vars

\* the bound is written with comparisons the bounds section accepts
BoundAccepted(i) ==
    IF i.form = "double" THEN i.c1 = "LEQ" /\ i.c2 = "LEQ"
    ELSE i.cmp \in {"LEQ", "GEQ", "EQ"}

\* <<lower bound, upper bound>> an accepted bound gives a variable that had
\* the bounds [0, +infinity)
BoundsWritten(i) ==
    IF i.form = "double" THEN <<Dbl(i.lo), Dbl(i.hi)>>
    ELSE IF i.cmp = "EQ" THEN <<Dbl(i.val), Dbl(i.val)>>
    ELSE IF (i.form = "constvar") = (i.cmp = "LEQ") THEN <<Dbl(i.val), Infinity>>
    ELSE <<Dbl(0), Dbl(i.val)>>

-----------------------------------------------------------------------------
(* C24 *)

\* C24: in the bounds section "c1 cmp x cmp c2" is accepted only when both
\* comparisons are "<="; "c cmp x" sets the lower bound for "<=", the upper
\* bound for ">=" and both for "="; "x cmp c" sets the upper bound for "<=",
\* the lower bound for ">=" and both for "="; a strict comparison makes the
\* parse fail, and so does a position that matches no bound pattern (here a
\* bound without its last token).
C24_BoundPatterns ==
    (pc = "done" /\ written.kind \in {"bounds", "boundscut"}
       /\ Len(written.items) = 1 /\ written.items[1].form # "free")
       => LET i == written.items[1] IN
          IF written.kind = "bounds" /\ BoundAccepted(i)
          THEN /\ status = "ok"
               /\ BoundsOf(i.var) = BoundsWritten(i)
               /\ TypeOf(i.var) = "CONTINUOUS"
          ELSE status = "error"

\* "2 >= x" has been read and x is in [0, 2]
C24_Witness ==
    /\ Returned
    /\ written.kind = "bounds"
    /\ written.items = <<[form |-> "constvar", val |-> 2, cmp |-> "GEQ", var |-> <<"x">>]>>
    /\ BoundsOf(<<"x">>) = <<Dbl(0), Dbl(2)>>

-----------------------------------------------------------------------------
(* C25 *)

\* the quadratic terms read from the group of the file: those of the
\* objective, or of the only constraint
GroupTermsRead ==
    IF written.sec = "obj" THEN builder.model.objective.quadterms
    ELSE builder.model.constraints[1].expr.quadterms

\* C25: inside a bracketed group every '^' must be followed by the constant
\* 2: "x ^ c" or "k x ^ c" with c # 2 makes the parse fail, however the group
\* is closed; in a group that is well formed and closed as its section
\* requires, "x ^ 2" or "k x ^ 2" appends one quadratic term with the
\* coefficient k (1 when none is written) and the variable x twice.
C25_ExponentIsTwo ==
    (pc = "done" /\ written.kind = "quad")
       => LET al == written.atoms IN
          /\ ~WellFormed(al) => status = "error"
          /\ (WellFormed(al) /\ written.closer = (IF written.sec = "obj" THEN "slash2" ELSE "bare"))
                => /\ status = "ok"
                   /\ Len(GroupTermsRead) = Len(al)
                   /\ \A i \in DOMAIN al :
                         al[i].op = "HAT"
                            => GroupTermsRead[i]
                                  = [coef |-> Dbl(IF al[i].hascoef THEN GroupCoef ELSE 1),
                                     var1 |-> al[i].var, var2 |-> al[i].var]

\* "st [ 3 y ^ 2 + x ^ 2 ] <= 1" has been read into the terms (3, y, y) and
\* (1, x, x)
C25_Witness ==
    /\ Returned
    /\ written.kind = "quad"
    /\ written.sec = "con"
    /\ written.atoms = << [op |-> "HAT", hascoef |-> TRUE, var |-> <<"y">>, exp |-> 2],
                          [op |-> "HAT", hascoef |-> FALSE, var |-> <<"x">>, exp |-> 2] >>
    /\ written.closer = "bare"
    /\ GroupTermsRead = << [coef |-> Dbl(GroupCoef), var1 |-> <<"y">>, var2 |-> <<"y">>],
                           [coef |-> Dbl(1), var1 |-> <<"x">>, var2 |-> <<"x">>] >>

-----------------------------------------------------------------------------
(* Files that begin with a word, with or without a ':' after it *)

\* the words written first: keywords in some mixes of cases, and words that
\* are no section keyword
PriorityWords ==
    CaseVariants(<<"s","t">>) \cup CaseVariants(<<"e","n","d">>)
    \cup { <<"m","i","n">>, <<"b","i","n">>, <<"g","e","n">>, <<"s","o","s">>,
           <<"b","o","u","n","d","s">>,
           <<"x">>, <<"f","r","e","e">>, <<"i","n","f">> }

\* the word, then ':' or not, then " 1" or not
PriorityFiles == [kind : {"prio"}, word : PriorityWords, colon : BOOLEAN, num : BOOLEAN]

PriorityText(w) ==
    w.word \o (IF w.colon THEN <<":">> ELSE <<>>) \o (IF w.num THEN <<" ", "1">> ELSE <<>>)

InitPriority ==
    /\ written \in PriorityFiles
    /\ ReadStart(PriorityText(written))

SpecPriority == InitPriority /\ [][Next]_vars

\* the section the written word is a keyword of, in any mix of cases; "NONE"
\* for x, free and inf
WrittenKeyword(w) ==
    LET s == ToLowerStr(w) IN
    IF s = <<"s","t">> THEN "CON"
    ELSE IF s = <<"e","n","d">> THEN "END"
    ELSE IF s = <<"m","i","n">> THEN "OBJMIN"
    ELSE IF s = <<"b","i","n">> THEN "BIN"
    ELSE IF s = <<"g","e","n">> THEN "GEN"
    ELSE IF s = <<"s","o","s">> THEN "SOS"
    ELSE IF s = <<"b","o","u","n","d","s">> THEN "BOUNDS"
    ELSE "NONE"

\* processtokens is over and the tokens it emitted are still there (they are
\* dropped when read() returns the model)
Classified == pc # "processtokens" /\ ~(pc = "done" /\ status = "ok")

-----------------------------------------------------------------------------
(* C26 *)

\* C26: the classifier rules apply in first-match-wins priority: a string
\* that matches the keyword table is emitted as a section-keyword token, also
\* when a ':' follows it, and only a string that matches no keyword becomes a
\* label (when a ':' follows), the free marker, or a variable reference;
\* "inf" is the infinity constant.
C26_KeywordBeforeLabel ==
    (Classified /\ written.kind = "prio")
       => LET w == written.word
              kw == WrittenKeyword(w)
          IN /\ processedtokens # <<>>
             /\ processedtokens[1] =
                   (IF kw # "NONE" THEN TokSecId(kw)
                    ELSE IF w = <<"i","n","f">> THEN TokConst(Infinity)
                    ELSE IF written.colon THEN TokName("CONID", w)
                    ELSE IF w = <<"f","r","e","e">> THEN TokPlain("FREE")
                    ELSE TokName("VARID", w))

\* "ST:" has been classified: the keyword token comes first, not a label
C26_Witness ==
    /\ Classified
    /\ written.kind = "prio"
    /\ written.word = <<"S","T">>
    /\ written.colon
    /\ processedtokens[1] = TokSecId("CON")

-----------------------------------------------------------------------------
(* C27 *)

\* the section is written with the keyword "end"
IsEnd(sec) == KeywordOf(sec) = "END"

\* C27: when the keyword "end" is followed by a token that is no section
\* keyword, so that the end section has content, the parse fails; a file
\* whose only "end" is its last token, after sections of different keywords
\* (or after nothing), is read.
C27_EndSectionHasNoContent ==
    (pc = "done" /\ written.kind = "sections")
       => LET secs == written.secs IN
          /\ (\E k \in DOMAIN secs : IsEnd(secs[k]) /\ ~secs[k].empty) => status = "error"
          /\ ( /\ IsEnd(secs[Len(secs)])
               /\ secs[Len(secs)].empty
               /\ ~SameKeywordTwice(secs) )
                => status = "ok"

\* "st x <= 1" and then "end x" have been read up to the end section, where
\* the parse failed with the constraint already in the model
C27_Witness ==
    /\ Failed
    /\ written.kind = "sections"
    /\ Len(written.secs) = 2
    /\ KeywordOf(written.secs[1]) = "CON"
    /\ ~written.secs[1].empty
    /\ IsEnd(written.secs[2])
    /\ ~written.secs[2].empty
    /\ "END" \in DOMAIN sectiontokens
    /\ Len(builder.model.constraints) = 1

-----------------------------------------------------------------------------
(* Files that end inside a block comment, read from the first character *)

\* "min" or nothing, then the opening of a comment and its insides, which
\* hold no '*' '/' pair
OpenCommentFiles == [kind : {"opencomment"}, min : BOOLEAN, inside : CommentInsides]

OpenCommentText(w) ==
    (IF w.min THEN <<"m", "i", "n", " ">> ELSE <<>>)
    \o <<"/", "*">>
    \o Flatten([i \in DOMAIN w.inside |-> <<" ", w.inside[i]>>])

InitOpenComment ==
    /\ LexStart
    /\ written \in OpenCommentFiles
    /\ file = OpenCommentText(written)

\* the steps of read() after the first filling of the lookahead window
AfterFill ==
    \/ NextRawToken
    \/ Classify
    \/ Comment
    \/ SplitTokens
    \/ ProcessNoneSec
    \/ ProcessObjSec
    \/ ProcessConSec
    \/ ProcessBoundsSec
    \/ ProcessGenSec
    \/ ProcessBinSec
    \/ ProcessSemiSec
    \/ ProcessSosSec
    \/ ProcessEndSec
    \/ Return

\* weak fairness of Fill, with ENABLED <<Fill>>_vars written out as its
\* guard pc = "fill": the for loop of read() is not left waiting
FillFair == []<><<Fill>>_vars \/ []<>(pc # "fill")

\* read() is one sequential run: it takes its next step as long as it has one
SpecOpenComment ==
    InitOpenComment /\ [][NextLex]_vars /\ FillFair /\ WF_vars(AfterFill)

\* no error so far, and no semantic token but the one of "min"
NoTokenFromComment ==
    written.kind = "opencomment"
       => /\ status \in {"running", "ok"}
          /\ Len(processedtokens) <= (IF written.min THEN 1 ELSE 0)
          /\ pc = "splittokens"
                => /\ processedtokens = (IF written.min THEN <<TokSecId("OBJMIN")>> ELSE <<>>)
                   /\ Len(rawstream) = (IF written.min THEN 3 ELSE 2) + Len(written.inside)

-----------------------------------------------------------------------------
(* C28 *)

\* C28: a block comment that is opened and never closed causes no error: the
\* classifier consumes the raw tokens up to the end-of-file token, emits no
\* semantic token for any of them, and then ends normally, so that read()
\* goes on and returns.
C28_UnclosedCommentEndsQuietly ==
    /\ []NoTokenFromComment
    /\ <>(pc = "done" /\ status = "ok")

\* "min /* a * a" has been read to the end: the three tokens inside the
\* comment were lexed and the model has the sense MIN and nothing else
C28_Witness ==
    /\ Returned
    /\ written.kind = "opencomment"
    /\ written.min
    /\ written.inside = <<"a", "*", "a">>
    /\ Len(lexout) >= 6
    /\ builder.model.objective.linterms = <<>>
    /\ builder.model.variables = <<>>

-----------------------------------------------------------------------------
(* Files of several tokens, read from the first character: the lookahead   *)
(* window of read() and nextrawtoken                                       *)

\* the largest number of characters in such a file
MaxWindowFileLen == 6

\* a letter, and '/' and '*', which are tokens of their own and end a word
WindowChars == {"x", "/", "*"}

WindowFiles == UNION { [1..n -> WindowChars] : n \in 0..MaxWindowFileLen }

InitWindow ==
    /\ LexStart
    /\ file \in WindowFiles
    /\ written = [kind |-> "window", chars |-> file]

SpecWindow == InitWindow /\ [][NextLex]_vars

\* the k-th token (from 1) of the lexer's output for the text: past the last
\* real token it is the end-of-file token
OutputToken(chars, k) ==
    LET s == LexAll(chars) IN
    IF k <= Len(s) THEN s[k] ELSE RawSym("FLEND")

\* the window is complete: the fill loop or a call of nextrawtoken is over
WindowComplete == pc \in {"classify", "comment"}

-----------------------------------------------------------------------------
(* C29 *)

\* C29: after the initial fill and after advances that consumed n raw tokens
\* in all, rawtoken(k) for k in 0..4 is the (n+k)-th token of the lexer's
\* output for the file, every position after the last real token holding
\* the end-of-file token; and after the lexer has returned the end-of-file
\* token once, every later read returns it again.
C29_WindowIsLookahead ==
    (written.kind = "window" /\ WindowComplete)
        => /\ Len(lexout) = rawtokenpos + 5
           /\ \A k \in 0..4 :
                  /\ Window[k + 1] = OutputToken(written.chars, rawtokenpos + k + 1)
                  /\ Window[k + 1] = lexout[rawtokenpos + k + 1]
           /\ \A i, j \in DOMAIN lexout :
                  (i < j /\ lexout[i].type = "FLEND") => lexout[j].type = "FLEND"

\* one token has been consumed and the window holds five real tokens, the
\* last of them in the slot that held the first token of the file
C29_Witness ==
    /\ written.kind = "window"
    /\ pc = "classify"
    /\ rawtokenpos = 1
    /\ \A k \in 1..5 : Window[k].type # "FLEND"
    /\ rawtokens[1] = Window[5]

-----------------------------------------------------------------------------
(* Files with text before the first section keyword *)

\* the largest number of words before the first section keyword
MaxLead == 2

\* words before the first section keyword: a name, a number, a comparison,
\* a label, brackets, "free" and a sign
LeadWords ==
    { <<"x">>, <<"1">>, <<">", "=">>, <<"x", ":">>, <<"[">>, <<"]">>,
      <<"f","r","e","e">>, <<"+">> }

LeadLists == UNION { [1..n -> LeadWords] : n \in 0..MaxLead }

\* the sections after them: none, or well-formed sections over the variable y
LeadTails ==
    { <<>>,
      <<"m","i","n"," ","y">>,
      <<"m","a","x">>,
      <<"s","t"," ","y"," ",">","="," ","1">>,
      <<"m","i","n"," ","y"," ","s","t"," ","y"," ",">","="," ","1">>,
      <<"b","i","n"," ","y">> }

LeadFiles == [kind : {"lead"}, lead : LeadLists, tail : LeadTails]

\* the words, each followed by a blank, then the sections
LeadText(w) == Flatten([i \in DOMAIN w.lead |-> w.lead[i] \o <<" ">>]) \o w.tail

InitLead ==
    /\ written \in LeadFiles
    /\ ReadStart(LeadText(written))

SpecLead == InitLead /\ [][Next]_vars

\* where the first section keyword stands in the token vector, or its end
FirstSecId(toks) ==
    LET secids == { i \in DOMAIN toks : toks[i].type = "SECID" } IN
    IF secids = {} THEN Len(toks) + 1
    ELSE CHOOSE i \in secids : \A j \in secids : i <= j

\* the names of the variables of the model, in order
ModelVariableNames == [i \in DOMAIN builder.model.variables |-> builder.model.variables[i].name]

\* the classifier accepts the raw tokens of the file ("1 [" it rejects), so
\* that there are semantic tokens to split
LeadClassified == processtokens(LexAll(LeadText(written))).status = "ok"

-----------------------------------------------------------------------------
(* C30 *)

\* C30: semantic tokens that precede the first section keyword of the file
\* are recorded in no section range, are processed by no section processor
\* and cause no error: splittokens records no range for the section NONE, so
\* that the check of processnonesec passes, every recorded range begins
\* after the first section keyword, and the model is the one of the sections
\* alone (for every file whose raw tokens the classifier accepts).
C30_LeadingTokensIgnored ==
    (written.kind = "lead" /\ LeadClassified /\ pc \notin {"processtokens", "splittokens"})
        => /\ status \in {"running", "ok"}
           /\ "NONE" \notin DOMAIN sectiontokens
           /\ pc # "done"
                => \A k \in DOMAIN sectiontokens :
                       sectiontokens[k].first > FirstSecId(processedtokens)
           /\ \A i \in DOMAIN ModelVariableNames : ModelVariableNames[i] # <<"x">>
           /\ pc = "done"
                => /\ ModelVariableNames
                        = (IF written.tail \in {<<>>, <<"m","a","x">>} THEN <<>> ELSE << <<"y">> >>)
                   /\ builder.model.constraints # <<>> <=> (\E i \in DOMAIN written.tail : written.tail[i] = "s")

\* "x: 1 min y st y >= 1" has been read: the label and the number before
\* "min" are in no range, the objective and the constraint are those of y
C30_Witness ==
    /\ written.kind = "lead"
    /\ Returned
    /\ written.lead = << <<"x", ":">>, <<"1">> >>
    /\ Len(rawstream) = 10
    /\ Len(builder.model.objective.linterms) = 1
    /\ Len(builder.model.constraints) = 1
    /\ Len(builder.model.variables) = 1

====
